---- MODULE Spec2Model ----
(***************************************************************************)
(* Model of audiovert's planning and execution engine.                     *)
(*                                                                         *)
(* Planning follows Config::populate (crates/audiovert/src/config.rs),     *)
(* execution and trashing follow run (crates/audiovert/src/cli.rs).        *)
(* One behaviour is a sequence of runs of the tool over one filesystem,    *)
(* all with the same configuration.                                        *)
(***************************************************************************)
EXTENDS Integers, Sequences, FiniteSets, TLC

VARIABLES
    cfg,            \* Config: the parsed command line
    fs,             \* the filesystem: files (path -> content) and directories
    fs0,            \* the filesystem as it was when the current run started
    db,             \* Db: the registry of walked files
    walk,           \* the entries ignore::Walk still has to yield
    tag_errors,     \* populate's local tag_errors buffer
    errors,         \* Tasks::errors
    already_exists, \* Tasks::already_exists
    tasks,          \* Tasks::tasks
    pc,             \* position of the run
    pos,            \* index of the next task / trash item / directory
    to_trash,       \* run's to_trash list
    check_empty,    \* run's check_empty list
    log,            \* filesystem, encoder and registry calls of the current run, in order
    run,            \* number of the current run
    prev,           \* (source path, destination) of tasks done after the previous run
    plans,          \* the task list as planning left it, in this run and the one before
    fails,          \* injected I/O failures so far
    bookvert,       \* the state of a run of bookvert
    call            \* a function or an object taken on its own: its inputs and its state

\* The variables of audiovert.
audiovert == <<cfg, fs, fs0, db, walk, tag_errors, errors, already_exists, tasks,
               pc, pos, to_trash, check_empty, log, run, prev, plans, fails>>

\* The variables of the other programs.
others == <<bookvert, call>>

\* No function is taken on its own.
NoCall == [fn |-> "none"]

vars == <<audiovert, others>>

----------------------------------------------------------------------------
(* Bounds *)

\* Number of runs of the tool in one behaviour.
MaxRuns == 2

\* Number of I/O calls in one behaviour that fail for an external reason
\* (permissions, disk, encoder crash).
MaxFails == 1

\* Number of --conversion rules on the command line.
MaxRules == 2

\* Number of push_file / push_archive calls on a registry taken on its own.
MaxPush == 4

\* Length of the tag values sanitize is applied to.
MaxLen == 4

\* The deepest nesting of indent scopes and the most lines written.
MaxDepth == 4

MaxLines == 3

\* The most --bitrates rules on a command line.
MaxBitrates == 2

----------------------------------------------------------------------------
(* Formats and conditions *)

\* enum Format, in declaration order (the derived Ord).
Formats == <<"aac", "flac", "mp3", "ogg", "wav">>

FormatSet == {Formats[i] : i \in DOMAIN Formats}

is_lossless(f) == f \in {"flac", "wav"}

\* Variant: the lossy class takes every format.
FromMatches_LossyAll(from, f) ==
    CASE from = "lossless" -> is_lossless(f)
      [] from = "lossy"    -> TRUE
      [] OTHER             -> from = f

\* FromCondition::matches; from is "lossless", "lossy" or a format.
FromMatches(from, f) ==
    CASE from = "lossless" -> is_lossless(f)
      [] from = "lossy"    -> ~is_lossless(f)
      [] OTHER             -> from = f

\* ToCondition::to_format; to is "same" or a format.
ToCondition_to_format(to, f) == IF to = "same" THEN f ELSE to

\* Condition::to_format; the Option is a set with at most one element.
Condition_to_format(c, f) ==
    CASE c.tag = "Same"   -> {f}
      [] c.tag = "To"     -> {ToCondition_to_format(c.to, f)}
      [] c.tag = "FromTo" -> IF FromMatches(c.from, f)
                             THEN {ToCondition_to_format(c.to, f)}
                             ELSE {}

CondSame == [tag |-> "Same", from |-> "none", to |-> "none"]
CondTo(t) == [tag |-> "To", from |-> "none", to |-> t]
CondFromTo(f, t) == [tag |-> "FromTo", from |-> f, to |-> t]

\* Variant: everything is converted to mp3.
DefaultConversion_AllToMp3 == <<CondTo("mp3")>>

\* The two rules entry() installs when no --conversion is given.
DefaultConversion == <<CondFromTo("lossless", "mp3"), CondFromTo("lossy", "same")>>

\* Variant: the targets are kept in the order the rules give them, each once.
ToFormats_DeclarationOrder(conversion, from) ==
    LET hit(i) == Condition_to_format(conversion[i], from)
        first == {i \in DOMAIN conversion :
                     hit(i) # {} /\ \A j \in 1..(i - 1) : hit(j) # hit(i)}
        idx == SelectSeq([i \in DOMAIN conversion |-> i], LAMBDA i : i \in first)
    IN  [k \in DOMAIN idx |-> CHOOSE t \in hit(idx[k]) : TRUE]

\* to_formats: the BTreeSet filled from every rule, iterated in Format order.
ToFormats(conversion, from) ==
    LET set == UNION {Condition_to_format(conversion[i], from) : i \in DOMAIN conversion}
    IN  SelectSeq(Formats, LAMBDA f : f \in set)

----------------------------------------------------------------------------
(* Paths and the filesystem *)

\* A path is a directory (sequence of components), a file stem, an extension
\* and whether the partial extension has been added.
Path(dir, name, ext) == [dir |-> dir, name |-> name, ext |-> ext, part |-> FALSE]

NoPath == [dir |-> <<>>, name |-> "", ext |-> "", part |-> FALSE]

set_extension(p, e) == [p EXCEPT !.ext = e]

\* to_path.with_added_extension(&config.part_ext)
with_added_extension(p) == [p EXCEPT !.part = TRUE]

\* Path::extension: the last extension of the file name.
extension(p) == IF p.part THEN "part" ELSE p.ext

InDir == <<"in">>
OutDir == <<"out">>
TrashDir == <<"trash">>
NoDir == <<>>

\* All proper prefixes and the directory itself: what create_dir_all makes.
Ancestors(d) == {SubSeq(d, 1, n) : n \in 1..Len(d)}

FileExists(f, p) == p \in DOMAIN f.files
IsDir(f, d) == d \in f.dirs

\* Content of a file: the original it derives from, the encoding applied to it
\* and whether it carries the tags --meta requires.
Content(src, enc, tags) == [src |-> src, enc |-> enc, tags |-> tags]

RemoveFile(f, p) ==
    [f EXCEPT !.files = [q \in DOMAIN f.files \ {p} |-> f.files[q]]]

WriteFile(f, p, c) ==
    [f EXCEPT !.files = [q \in DOMAIN f.files \cup {p} |->
                            IF q = p THEN c ELSE f.files[q]]]

\* fs::rename of a file: the target is replaced if it exists.
RenameFile(f, from, to) == RemoveFile(WriteFile(f, to, f.files[from]), from)

CreateDirAll(f, d) == [f EXCEPT !.dirs = f.dirs \cup Ancestors(d)]

----------------------------------------------------------------------------
(* Source registry *)

\* Variant: the new file goes in front of the list.
push_file_Prepend(d, link) ==
    [id |-> Len(d.files), db |-> [d EXCEPT !.files = <<link>> \o d.files]]

\* Db::push_file: the id is the length before the push.
push_file(d, link) == [id |-> Len(d.files), db |-> [d EXCEPT !.files = Append(d.files, link)]]

\* Db::push_archive
push_archive(d, archive) ==
    [id |-> Len(d.archives), db |-> [d EXCEPT !.archives = Append(d.archives, archive)]]

\* SourceArchive: the kind of the archive and where it is.
SourceArchive(kind, path) == [kind |-> kind, path |-> path]

SourceFile(id) == [origin |-> "File", file |-> id]

\* Source::Archive: a file inside an archive, named by its relative path.
SourceInArchive(id, rel) == [origin |-> "Archive", archive |-> id, path |-> rel]

\* Vec::get on the list of a registry: an error for an id past its end.
Lookup(list, id, what) ==
    IF id >= 0 /\ id < Len(list)
    THEN [ok |-> TRUE, value |-> list[id + 1]]
    ELSE [ok |-> FALSE, value |-> what]

\* Db::file, as the callers use it: the Ok value.
Db_file(d, id) == Lookup(d.files, id, "invalid file id").value

\* Db::archive, as the callers use it: the Ok value.
Db_archive(d, id) == Lookup(d.archives, id, "invalid archive id").value

\* The components of a relative directory that get pushed: CurDir is skipped.
Normal(dir) == SelectSeq(dir, LAMBDA s : s # ".")

\* A relative path with a ParentDir component.
HasParentDir(rel) == \E n \in DOMAIN rel.dir : rel.dir[n] = ".."

\* Variant: the entries of an archive unpack into the directory of the
\* archive itself.
Db_to_path_NoStem(d, source) ==
    IF source.origin = "File"
    THEN Db_file(d, source.file)
    ELSE LET archive == Db_archive(d, source.archive).path
         IN  Path(archive.dir \o Normal(source.path.dir),
                  source.path.name, source.path.ext)

\* Db::to_path: the file itself, or for a file in an archive the path it
\* would have were the archive unpacked next to itself under its stem.
Db_to_path(d, source) ==
    IF source.origin = "File"
    THEN Db_file(d, source.file)
    ELSE LET archive == Db_archive(d, source.archive).path
         IN  Path(archive.dir \o <<archive.name>> \o Normal(source.path.dir),
                  source.path.name, source.path.ext)

\* Db::to_dir_path: the suffix below base, pushed on to_dir.
Db_to_dir_path(d, source, base, to_dir) ==
    IF source.origin = "File"
    THEN LET file == Db_file(d, source.file)
         IN  [file EXCEPT !.dir = to_dir \o SubSeq(file.dir, Len(base) + 1, Len(file.dir))]
    ELSE LET archive == Db_archive(d, source.archive).path
         IN  Path(to_dir \o SubSeq(archive.dir, Len(base) + 1, Len(archive.dir))
                         \o <<archive.name>> \o Normal(source.path.dir),
                  source.path.name, source.path.ext)

\* Variant: a file in an archive is taken for the file it would unpack to.
Db_as_file_Unpacked(d, source) == Db_to_path(d, source)

\* Db::as_file: None (no path) for a file in an archive.
Db_as_file(d, source) ==
    IF source.origin = "File" THEN Db_file(d, source.file) ELSE NoPath

\* Db::ext
Db_ext(d, source) ==
    IF source.origin = "File"
    THEN extension(Db_file(d, source.file))
    ELSE extension(source.path)

\* Db::move_to, as far as its outcome is decided by the source and the kind.
Db_move_to(source, kind) ==
    IF source.origin = "Archive"
    THEN CASE kind = "Link" -> "cannot link from archive"
           [] kind = "Move" -> "cannot move from archive"
           [] OTHER -> "ok"
    ELSE "ok"

\* Format::from_ext applied to Db::ext; "" when the extension is unsupported.
Format_from_ext(ext) == IF ext \in FormatSet THEN ext ELSE ""

\* Archive::from_ext; "" when the extension is not one of an archive.
Archive_from_ext(ext) == IF ext \in {"zip", "rar", "7z"} THEN ext ELSE ""

----------------------------------------------------------------------------
(* Planning: Config::populate *)

\* A tag error message; "of" records the file that was being read when the
\* message was produced.
Message(text, path) == [text |-> text, of |-> path]

\* meta::Parts::from_path: the required tags are either all readable, or a
\* message is pushed for what is missing and no parts are returned.
Parts_from_path(f, path) ==
    IF f.files[path].tags
    THEN [parts |-> TRUE, messages |-> <<>>]
    ELSE [parts |-> FALSE, messages |-> <<Message("missing tag", path)>>]

\* Parts::from_path for a file in an archive: the tags are read from the
\* contents of the entry.
Parts_from_archive(f, d, source) ==
    LET entries == f.files[Db_archive(d, source.archive).path].entries
        tagged == \E n \in DOMAIN entries :
                     entries[n].path = source.path /\ entries[n].tags
    IN  IF tagged
        THEN [parts |-> TRUE, messages |-> <<>>]
        ELSE [parts |-> FALSE,
              messages |-> <<Message("missing tag", Db_to_path(d, source))>>]

\* Parts::from_path on a source.
Parts_from_source(f, d, source) ==
    IF source.origin = "File"
    THEN Parts_from_path(f, Db_file(d, source.file))
    ELSE Parts_from_archive(f, d, source)

\* Parts::append_to followed by add_extension: artist / album (year) / track.
MetaPath(base, to) == Path(base \o <<"artist", "album">>, "track", to)

\* The destination of (source, to): the four arms of populate's to_path.
ToPath(c, d, source, dir, meta_parts, to) ==
    IF c.to_dir # NoDir
    THEN IF meta_parts
         THEN MetaPath(c.to_dir, to)
         ELSE set_extension(Db_to_dir_path(d, source, dir, c.to_dir), to)
    ELSE IF meta_parts
         THEN MetaPath(dir, to)
         ELSE set_extension(Db_to_path(d, source), to)

PreRemove(reason, path) == [reason |-> reason, path |-> path]

\* Variant: the removal is queued whether or not --force is set.
ForcePreRemove_Unforced(c, f, to_path) ==
    IF FileExists(f, to_path)
    THEN <<PreRemove("destination path (--force)", to_path)>>
    ELSE <<>>

\* The pre_remove entry pushed for an existing destination.
ForcePreRemove(c, f, to_path) ==
    IF FileExists(f, to_path) /\ c.force
    THEN <<PreRemove("destination path (--force)", to_path)>>
    ELSE <<>>

\* Variant: a stale partial file is left alone.
PartPreRemove_Never(f, part_path) == <<>>

\* The pre_remove entry pushed for an existing partial file of a Convert.
PartPreRemove(f, part_path) ==
    IF FileExists(f, part_path)
    THEN <<PreRemove("partial conversion file", part_path)>>
    ELSE <<>>

\* Variant: an existing destination is never recognised.
PlanExists_Never(c, f, to_path) == FALSE

\* exists: the destination is there and --force is not set.
PlanExists(c, f, to_path) == FileExists(f, to_path) /\ ~c.force

\* Variant: the forced bitrates are not looked at.
IsTransfer_IgnoringForced(c, from, to) == from = to

\* from == to && !forced_bitrates.contains(&from)
IsTransfer(c, from, to) == from = to /\ from \notin c.forced_bitrates

\* Variant: the kind is chosen from --move alone.
PlanTransferKind_IgnoringOrigin(c, source) == IF c.move THEN "Move" ELSE "Link"

\* The TransferKind chosen for a source.
PlanTransferKind(c, source) ==
    IF source.origin = "File"
    THEN IF c.move THEN "Move" ELSE "Link"
    ELSE "Copy"

\* The Task pushed for one (source, to) pair whose destination is to_path.
PlanTask(c, f, source, from, to, to_path, index) ==
    LET exists == PlanExists(c, f, to_path)
        part_path == with_added_extension(to_path)
    IN  IF IsTransfer(c, from, to)
        THEN [index |-> index, kind |-> "Transfer",
              transfer |-> PlanTransferKind(c, source),
              part_path |-> NoPath, from |-> from, to |-> to,
              converted |-> FALSE,
              source |-> source, to_path |-> to_path, moved |-> exists,
              pre_remove |-> ForcePreRemove(c, f, to_path)]
        ELSE [index |-> index, kind |-> "Convert", transfer |-> "none",
              part_path |-> part_path, from |-> from, to |-> to,
              converted |-> exists,
              source |-> source, to_path |-> to_path, moved |-> exists,
              pre_remove |-> ForcePreRemove(c, f, to_path) \o PartPreRemove(f, part_path)]

\* Variant: the destination is never compared with the source.
IsSelfConversion_Never(d, source, to_path) == FALSE

\* The source is a regular file and the destination is that very file.
IsSelfConversion(d, source, to_path) == Db_as_file(d, source) = to_path

\* The loop over to_formats for one source; acc carries tasks and
\* already_exists.
\* Variant: the index goes on counting from one run of the tool to the next.
TaskIndex_AcrossRuns(ts) == Len(ts) + run - 1

\* The index of the next task: the length of the task list so far.
TaskIndex(ts) == Len(ts)

RECURSIVE PlanTargets(_, _, _, _, _, _, _, _)
PlanTargets(c, f, d, source, from, meta_parts, tos, acc) ==
    IF tos = <<>> THEN acc
    ELSE
        LET to == Head(tos)
            to_path == ToPath(c, d, source, InDir, meta_parts, to)
            next ==
                IF IsSelfConversion(d, source, to_path)
                THEN acc
                ELSE [tasks |-> Append(acc.tasks,
                          PlanTask(c, f, source, from, to, to_path,
                                   TaskIndex(acc.tasks))),
                      already_exists |->
                          IF PlanExists(c, f, to_path)
                          THEN Append(acc.already_exists,
                                      [source |-> source, path |-> to_path])
                          ELSE acc.already_exists]
        IN  PlanTargets(c, f, d, source, from, meta_parts, Tail(tos), next)

\* PathError
PathError(source, messages) == [source |-> source, messages |-> messages]

\* The body of `for source in sources.drain(..)`: match the rules, read the
\* tags and plan every target format.  acc carries tag_errors, errors, tasks
\* and already_exists.
PlanSource(c, f, d, source, acc) ==
    LET from == Format_from_ext(Db_ext(d, source))
        tos == ToFormats(c.conversion, from)
        id_parts == Parts_from_source(f, d, source)
        read_errors == acc.tag_errors \o id_parts.messages
    IN  IF from = ""
        THEN acc
        ELSE IF c.meta /\ ~id_parts.parts
        THEN [acc EXCEPT !.tag_errors =
                 Append(read_errors,
                        Message("could not extract required tags", Db_to_path(d, source)))]
        ELSE LET planned == PlanTargets(c, f, d, source, from, c.meta, tos,
                                [tasks |-> acc.tasks,
                                 already_exists |-> acc.already_exists])
             IN  [tag_errors |-> IF c.meta THEN <<>> ELSE read_errors,
                  errors |-> IF c.meta /\ read_errors # <<>>
                             THEN Append(acc.errors, PathError(source, read_errors))
                             ELSE acc.errors,
                  tasks |-> planned.tasks,
                  already_exists |-> planned.already_exists]

\* The sources one walked file gives, in order.
RECURSIVE PlanSources(_, _, _, _, _)
PlanSources(c, f, d, sources, acc) ==
    IF sources = <<>> THEN acc
    ELSE PlanSources(c, f, d, Tail(sources), PlanSource(c, f, d, Head(sources), acc))

\* kind.enumerate with populate's callback: every entry of the archive is a
\* source unless its path has a ParentDir component.
\* Variant: every entry of the archive becomes a source.
ArchiveSources_Unfiltered(f, walked, archive_id) ==
    [n \in DOMAIN f.files[walked].entries |->
        SourceInArchive(archive_id, f.files[walked].entries[n].path)]

ArchiveSources(f, walked, archive_id) ==
    LET entries == f.files[walked].entries
        kept == SelectSeq(entries, LAMBDA e : ~HasParentDir(e.path))
    IN  [n \in DOMAIN kept |-> SourceInArchive(archive_id, kept[n].path)]

\* The walk yields an error instead of this entry.
WalkFails(f, walked) == f.files[walked].enc = "unreadable"

\* The archive cannot be opened or parsed.
EnumerateFails(f, walked) == f.files[walked].enc = "corrupt"

\* One iteration of the walk: register the file or the archive and plan the
\* sources it gives.  An error of the walk or of the enumeration of an
\* archive is returned from populate with `?`.
PlanEntry ==
    /\ pc = "plan"
    /\ walk # <<>>
    /\ LET walked == Head(walk)
           kind == Archive_from_ext(extension(walked))
           pushed == IF kind # ""
                     THEN push_archive(db, SourceArchive(kind, walked))
                     ELSE push_file(db, walked)
           sources == IF kind # ""
                      THEN ArchiveSources(fs, walked, pushed.id)
                      ELSE <<SourceFile(pushed.id)>>
           planned == PlanSources(cfg, fs, pushed.db, sources,
                          [tag_errors |-> tag_errors, errors |-> errors,
                           tasks |-> tasks, already_exists |-> already_exists])
       IN  /\ walk' = Tail(walk)
           /\ IF WalkFails(fs, walked)
              THEN /\ pc' = "failed"
                   /\ UNCHANGED <<db, tag_errors, errors, tasks, already_exists>>
              ELSE IF kind # "" /\ EnumerateFails(fs, walked)
              THEN /\ pc' = "failed"
                   /\ db' = pushed.db
                   /\ UNCHANGED <<tag_errors, errors, tasks, already_exists>>
              ELSE /\ pc' = pc
                   /\ db' = pushed.db
                   /\ tag_errors' = planned.tag_errors
                   /\ errors' = planned.errors
                   /\ tasks' = planned.tasks
                   /\ already_exists' = planned.already_exists
    /\ UNCHANGED <<cfg, fs, fs0, pos, to_trash, check_empty, log, run, prev,
                   plans, fails>>
    /\ UNCHANGED others

\* Variant: the --keep-going flag is read the wrong way round.
ShouldAbort_Inverted(c, errs) == errs # <<>> /\ c.keep_going

\* The run aborts after planning when errors were recorded and --keep-going
\* is not set.
ShouldAbort(c, errs) == errs # <<>> /\ ~c.keep_going

\* The end of planning: errors are reported and the run aborts or goes on to
\* execute the tasks.
Report ==
    /\ pc = "plan"
    /\ walk = <<>>
    /\ pc' = IF ShouldAbort(cfg, errors) THEN "aborted" ELSE "exec"
    /\ pos' = 1
    /\ plans' = [plans EXCEPT !.now = tasks]
    /\ UNCHANGED <<cfg, fs, fs0, db, walk, tag_errors, errors, already_exists,
                   tasks, to_trash, check_empty, log, run, prev, fails>>
    /\ UNCHANGED others

----------------------------------------------------------------------------
(* Execution: the task loop of run *)

\* One filesystem or encoder call: what was called, for which task, on which
\* paths, whether it succeeded, and whether path is there after the call.
Event(op, task, from, path, ok, after) ==
    [op |-> op, task |-> task, from |-> from, path |-> path, ok |-> ok,
     after |-> after]

\* The calls that can fail for a reason outside the model.
FailPoints ==
    {<<"rm", 1>>, <<"rm", 2>>, <<"mkdir", 0>>, <<"mkdir", 1>>, <<"spawn", 0>>,
     <<"exit", 0>>, <<"exitpart", 0>>, <<"rename", 0>>, <<"transfer", 0>>}

\* State threaded through the calls of one step: the filesystem, the log and
\* the injected failures that took effect.
Use(st, inject, point) == IF inject THEN st.used \cup {point} ELSE st.used

\* TaskKind::is_completed
KindIsCompleted(t) == IF t.kind = "Convert" THEN t.converted ELSE TRUE

\* Variant: pending pre-removals are not part of completion.
TaskIsCompleted_IgnoringPreRemove(t) == KindIsCompleted(t) /\ t.moved

\* Task::is_completed
TaskIsCompleted(t) == KindIsCompleted(t) /\ t.moved /\ t.pre_remove = <<>>

\* The pre_remove.drain(..) loop: every queued path is removed unless this is
\* a dry run; a failed removal is reported and the loop goes on.
RECURSIVE RunPreRemove(_, _, _, _, _, _)
RunPreRemove(c, index, rms, k, F, st) ==
    IF rms = <<>> THEN st
    ELSE
        LET path == Head(rms).path
            natural == FileExists(st.fs, path)
            inject == natural /\ <<"rm", k>> \in F
            ok == natural /\ ~inject
            next ==
                IF c.dry_run THEN st
                ELSE [fs |-> IF ok THEN RemoveFile(st.fs, path) ELSE st.fs,
                      log |-> Append(st.log, Event("rm", index, NoPath, path, ok, natural /\ ~ok)),
                      used |-> Use(st, inject, <<"rm", k>>)]
        IN  RunPreRemove(c, index, Tail(rms), k + 1, F, next)

\* Variant: the directory is made in a dry run too.
make_dir_InDryRun(c, index, path, point, F, st) ==
    LET parent == path.dir
        inject == point \in F
    IN  IF parent = <<>> \/ IsDir(st.fs, parent)
        THEN [ok |-> TRUE, st |-> st]
        ELSE [ok |-> ~inject,
              st |-> [fs |-> IF inject THEN st.fs ELSE CreateDirAll(st.fs, parent),
                      log |-> Append(st.log,
                                 Event("mkdir", index, NoPath, Path(parent, "", ""), ~inject, ~inject)),
                      used |-> Use(st, inject, point)]]

\* Config::make_dir: creates the parent of path unless it is there already.
make_dir(c, index, path, point, F, st) ==
    LET parent == path.dir
        inject == point \in F
    IN  IF parent = <<>> \/ IsDir(st.fs, parent) \/ c.dry_run
        THEN [ok |-> TRUE, st |-> st]
        ELSE [ok |-> ~inject,
              st |-> [fs |-> IF inject THEN st.fs ELSE CreateDirAll(st.fs, parent),
                      log |-> Append(st.log,
                                 Event("mkdir", index, NoPath, Path(parent, "", ""), ~inject, ~inject)),
                      used |-> Use(st, inject, point)]]

\* Variant: the encoder writes straight to the destination.
EncoderTarget_Destination(t) == t.to_path

\* The output argument of the encoder command: cmd.arg(part_path).
EncoderTarget(t) == t.part_path

\* Variant: the exit status of the encoder is not looked at.
ConvertedAfter_AnyStatus(c, success) == TRUE

\* The value stored in converted after the encoder step: status.success(),
\* or true in a dry run.
ConvertedAfter(c, success) == IF c.dry_run THEN TRUE ELSE success

\* The encoder process: reads from_path and writes its output to target.  It
\* may fail to spawn, or exit non-zero with or without leaving partial output.
Encode(c, t, from_path, target, F, st) ==
    LET natural == FileExists(st.fs, from_path)
        spawn == <<"spawn", 0>> \in F
        exitpart == ~spawn /\ natural /\ <<"exitpart", 0>> \in F
        exit == ~spawn /\ ~exitpart /\ natural /\ <<"exit", 0>> \in F
        success == natural /\ ~spawn /\ ~exitpart /\ ~exit
        used == (IF spawn THEN {<<"spawn", 0>>} ELSE {})
                \cup (IF exitpart THEN {<<"exitpart", 0>>} ELSE {})
                \cup (IF exit THEN {<<"exit", 0>>} ELSE {})
        written ==
            IF success
            THEN WriteFile(st.fs, target,
                     Content(st.fs.files[from_path].src, t.to, st.fs.files[from_path].tags))
            ELSE IF exitpart
            THEN WriteFile(st.fs, target,
                     Content(st.fs.files[from_path].src, "partial", FALSE))
            ELSE st.fs
    IN  IF c.dry_run
        THEN [spawned |-> TRUE, success |-> TRUE, st |-> st]
        ELSE [spawned |-> ~spawn, success |-> success,
              st |-> [fs |-> written,
                      log |-> Append(st.log, Event("enc", t.index, from_path, target, success,
                                       FileExists(written, target))),
                      used |-> st.used \cup used]]

\* The rename of the partial file to the destination.
RenamePart(c, t, F, st) ==
    LET natural == FileExists(st.fs, t.part_path)
        inject == natural /\ <<"rename", 0>> \in F
        ok == natural /\ ~inject
    IN  IF c.dry_run
        THEN [ok |-> TRUE, st |-> st]
        ELSE [ok |-> ok,
              st |-> [fs |-> IF ok THEN RenameFile(st.fs, t.part_path, t.to_path) ELSE st.fs,
                      log |-> Append(st.log,
                                 Event("rename", t.index, t.part_path, t.to_path, ok,
                                       ok \/ FileExists(st.fs, t.to_path))),
                      used |-> Use(st, inject, <<"rename", 0>>)]]

\* Variant: moved is only set by a call that was really made.
MovedAfter_RealOnly(c, ok) == ~c.dry_run /\ ok

\* The value stored in moved after the rename, link or move step: set when the
\* call succeeded, and set without a call in a dry run.
MovedAfter(c, ok) == IF c.dry_run THEN TRUE ELSE ok

\* Variant: the encoder is called a second time.
RunConvert_Retry(c, t, from_path, F, st) ==
    LET enc == Encode(c, t, from_path, EncoderTarget(t), F, st)
        again == Encode(c, t, from_path, EncoderTarget(t), F, enc.st)
    IN  [task |-> [t EXCEPT !.converted = ConvertedAfter(c, again.success)],
         st |-> again.st]

\* The TaskKind::Convert arm.
RunConvert(c, t, from_path, F, st) ==
    IF t.converted THEN [task |-> t, st |-> st]
    ELSE
        LET md == make_dir(c, t.index, t.part_path, <<"mkdir", 0>>, F, st)
            enc == Encode(c, t, from_path, EncoderTarget(t), F, md.st)
            t2 == [t EXCEPT !.converted = ConvertedAfter(c, enc.success)]
            md2 == make_dir(c, t.index, t.to_path, <<"mkdir", 1>>, F, enc.st)
            mv == RenamePart(c, t, F, md2.st)
        IN  IF ~md.ok THEN [task |-> t, st |-> md.st]
            ELSE IF ~enc.spawned THEN [task |-> t, st |-> enc.st]
            ELSE IF ~(t2.converted /\ ~t.moved) THEN [task |-> t2, st |-> enc.st]
            ELSE IF ~md2.ok THEN [task |-> t2, st |-> md2.st]
            ELSE [task |-> [t2 EXCEPT !.moved = MovedAfter(c, mv.ok)], st |-> mv.st]

\* fs::hard_link, fs::rename or fs::copy from the source to the destination.
Transfer(c, t, from_path, F, st) ==
    LET natural ==
            /\ FileExists(st.fs, from_path)
            /\ (t.transfer = "Link" => ~FileExists(st.fs, t.to_path))
        inject == natural /\ <<"transfer", 0>> \in F
        ok == natural /\ ~inject
        op == CASE t.transfer = "Link" -> "link"
                [] t.transfer = "Move" -> "move"
                [] OTHER -> "copy"
        done ==
            IF t.transfer = "Move"
            THEN RenameFile(st.fs, from_path, t.to_path)
            ELSE WriteFile(st.fs, t.to_path, st.fs.files[from_path])
    IN  IF c.dry_run
        THEN [ok |-> TRUE, st |-> st]
        ELSE [ok |-> ok,
              st |-> [fs |-> IF ok THEN done ELSE st.fs,
                      log |-> Append(st.log, Event(op, t.index, from_path, t.to_path, ok,
                                       ok \/ FileExists(st.fs, t.to_path))),
                      used |-> Use(st, inject, <<"transfer", 0>>)]]

\* The TaskKind::Transfer arm.
RunTransfer(c, t, from_path, F, st) ==
    IF t.moved THEN [task |-> t, st |-> st]
    ELSE
        LET md == make_dir(c, t.index, t.to_path, <<"mkdir", 0>>, F, st)
            tr == Transfer(c, t, from_path, F, md.st)
        IN  IF ~md.ok THEN [task |-> t, st |-> md.st]
            ELSE [task |-> [t EXCEPT !.moved = MovedAfter(c, tr.ok)], st |-> tr.st]

\* The body of the task loop for a task that is not completed.
RunTask(c, d, t, F, st) ==
    LET removed == RunPreRemove(c, t.index, t.pre_remove, 1, F, st)
        drained == [t EXCEPT !.pre_remove = <<>>]
        from_path == Db_to_path(d, t.source)
    IN  IF t.kind = "Convert"
        THEN RunConvert(c, drained, from_path, F, removed)
        ELSE RunTransfer(c, drained, from_path, F, removed)

\* Variant: the loop is left at the first task one of whose calls failed.
LoopAfter_StopOnFailure(p, n, failed) == IF failed THEN n + 1 ELSE p + 1

\* The end of the loop body and every `continue` in it: the loop goes on with
\* the next task, whether or not a call of this task failed.
LoopAfter(p, n, failed) == p + 1

\* One iteration of the task loop.
ExecTask ==
    /\ pc = "exec"
    /\ pos <= Len(tasks)
    /\ IF TaskIsCompleted(tasks[pos])
       THEN /\ pos' = LoopAfter(pos, Len(tasks), FALSE)
            /\ UNCHANGED <<fs, tasks, log, fails>>
       ELSE \E F \in SUBSET FailPoints :
              /\ Cardinality(F) + fails <= MaxFails
              /\ LET r == RunTask(cfg, db, tasks[pos], F,
                                  [fs |-> fs, log |-> log, used |-> {}])
                     failed == \E k \in (Len(log) + 1)..Len(r.st.log) : ~r.st.log[k].ok
                 IN  /\ r.st.used = F
                     /\ pos' = LoopAfter(pos, Len(tasks), failed)
                     /\ tasks' = [tasks EXCEPT ![pos] = r.task]
                     /\ fs' = r.st.fs
                     /\ log' = r.st.log
                     /\ fails' = fails + Cardinality(F)
    /\ UNCHANGED <<cfg, fs0, db, walk, tag_errors, errors, already_exists,
                   pc, to_trash, check_empty, run, prev, plans>>
    /\ UNCHANGED others

----------------------------------------------------------------------------
(* Trashing: the end of run *)

\* Variant: the source of a task that is not completed is trashed as well.
IsTrashed_Unfinished(c, t) ==
    /\ c.trash_source
    /\ ~(t.kind = "Transfer" /\ t.transfer = "Move")

\* Trashing is skipped for tasks that are not completed and for moved files.
IsTrashed(c, t) ==
    /\ TaskIsCompleted(t)
    /\ c.trash_source
    /\ ~(t.kind = "Transfer" /\ t.transfer = "Move")

\* config.trash.join(file_name)
TrashPath(from_path) == [from_path EXCEPT !.dir = TrashDir]

\* The to_trash list: one entry per completed task, in task order.
BuildTrash(c, d, ts) ==
    LET picked == SelectSeq(ts, LAMBDA t : IsTrashed(c, t))
    IN  [i \in DOMAIN picked |->
            [from |-> Db_to_path(d, picked[i].source),
             trash_path |-> TrashPath(Db_to_path(d, picked[i].source))]]

\* is_empty_dir: the directory can be read and has no entry.
is_empty_dir(f, d) ==
    /\ IsDir(f, d)
    /\ \A p \in DOMAIN f.files : p.dir # d
    /\ \A e \in f.dirs : ~(Len(e) = Len(d) + 1 /\ SubSeq(e, 1, Len(d)) = d)

RemoveDir(f, d) == [f EXCEPT !.dirs = f.dirs \ {d}]

\* After the task loop: the to_trash list is built and the trash directory
\* is created when something is to be trashed.
EndExec ==
    /\ pc = "exec"
    /\ pos > Len(tasks)
    /\ LET list == BuildTrash(cfg, db, tasks)
           needed == list # <<>> /\ ~IsDir(fs, TrashDir) /\ ~cfg.dry_run
       IN  /\ to_trash' = list
           /\ pc' = IF list = <<>> THEN "done" ELSE "trash"
           /\ pos' = 1
           /\ IF needed
              THEN \E inject \in BOOLEAN :
                     /\ inject => fails < MaxFails
                     /\ fails' = IF inject THEN fails + 1 ELSE fails
                     /\ fs' = IF inject THEN fs ELSE CreateDirAll(fs, TrashDir)
                     /\ log' = Append(log, Event("mktrash", 0, NoPath,
                                                 Path(TrashDir, "", ""), ~inject, ~inject))
              ELSE UNCHANGED <<fs, log, fails>>
    /\ UNCHANGED <<cfg, fs0, db, walk, tag_errors, errors, already_exists,
                   tasks, check_empty, run, prev, plans>>
    /\ UNCHANGED others

\* One iteration of the loop that moves files to the trash.
TrashOne ==
    /\ pc = "trash"
    /\ pos <= Len(to_trash)
    /\ LET item == to_trash[pos]
           natural == FileExists(fs, item.from) /\ IsDir(fs, TrashDir)
           last == pos = Len(to_trash)
       IN  \E inject \in BOOLEAN :
             LET ok == natural /\ ~inject
                 pushed == IF cfg.dry_run \/ ok
                           THEN check_empty
                           ELSE Append(check_empty, item.from.dir)
             IN  /\ inject => (natural /\ ~cfg.dry_run /\ fails < MaxFails)
                 /\ fails' = IF inject THEN fails + 1 ELSE fails
                 /\ IF cfg.dry_run
                    THEN UNCHANGED <<fs, log>>
                    ELSE /\ fs' = IF ok THEN RenameFile(fs, item.from, item.trash_path)
                                  ELSE fs
                         /\ log' = Append(log, Event("trash", pos, item.from, item.trash_path, ok,
                                                     ok \/ FileExists(fs, item.trash_path)))
                 /\ check_empty' = pushed
                 /\ pc' = IF ~last THEN "trash"
                          ELSE IF pushed = <<>> THEN "done" ELSE "check"
                 /\ pos' = IF last THEN 1 ELSE pos + 1
    /\ UNCHANGED <<cfg, fs0, db, walk, tag_errors, errors, already_exists,
                   tasks, to_trash, run, prev, plans>>
    /\ UNCHANGED others

\* One iteration of the loop over check_empty.
CheckEmpty ==
    /\ pc = "check"
    /\ pos <= Len(check_empty)
    /\ LET path == check_empty[pos]
           last == pos = Len(check_empty)
       IN  /\ IF is_empty_dir(fs, path) /\ ~cfg.dry_run
              THEN \E inject \in BOOLEAN :
                     /\ inject => fails < MaxFails
                     /\ fails' = IF inject THEN fails + 1 ELSE fails
                     /\ fs' = IF inject THEN fs ELSE RemoveDir(fs, path)
                     /\ log' = Append(log, Event("rmdir", pos, NoPath,
                                                 Path(path, "", ""), ~inject, inject))
              ELSE UNCHANGED <<fs, log, fails>>
           /\ pc' = IF last THEN "done" ELSE "check"
           /\ pos' = IF last THEN 1 ELSE pos + 1
    /\ UNCHANGED <<cfg, fs0, db, walk, tag_errors, errors, already_exists,
                   tasks, to_trash, check_empty, run, prev, plans>>
    /\ UNCHANGED others

----------------------------------------------------------------------------
(* Runs *)

\* The files ignore::Walk yields for the scanned directory, in a fixed order.
WalkOrder ==
    <<Path(InDir, "a", "zip"),
      Path(InDir \o <<"a">>, "y", "mp3"),
      Path(InDir, "locked", ""),
      Path(InDir \o <<"sub">>, "x", "flac"),
      Path(InDir, "x", "aac"),
      Path(InDir, "x", "flac"),
      Path(InDir, "x", "mp3"),
      with_added_extension(Path(InDir, "x", "mp3")),
      Path(InDir, "x", "ogg"),
      Path(InDir, "x", "wav"),
      MetaPath(InDir, "mp3"),
      with_added_extension(MetaPath(InDir, "mp3"))>>

Walk(f) == SelectSeq(WalkOrder, LAMBDA p : FileExists(f, p))

EmptyDb == [files |-> <<>>, archives |-> <<>>]

\* (source path, destination) of the tasks that are completed.
DonePairs(d, ts) ==
    {<<Db_to_path(d, ts[i].source), ts[i].to_path>> :
        i \in {j \in DOMAIN ts : TaskIsCompleted(ts[j])}}

\* The tool is started again on the filesystem the last run left behind.
NextRun ==
    /\ pc \in {"done", "aborted"}
    /\ run < MaxRuns
    /\ run' = run + 1
    /\ prev' = IF pc = "done" THEN DonePairs(db, tasks) ELSE {}
    /\ plans' = [now |-> <<>>,
                 before |-> IF fs = fs0 THEN plans.now ELSE <<>>,
                 same |-> fs = fs0]
    /\ fs0' = fs
    /\ db' = EmptyDb
    /\ walk' = Walk(fs)
    /\ tag_errors' = <<>>
    /\ errors' = <<>>
    /\ already_exists' = <<>>
    /\ tasks' = <<>>
    /\ pc' = "plan"
    /\ pos' = 1
    /\ to_trash' = <<>>
    /\ check_empty' = <<>>
    /\ log' = <<>>
    /\ UNCHANGED <<cfg, fs, fails>>
    /\ UNCHANGED others

----------------------------------------------------------------------------
(* bookvert: entry (crates/bookvert/src/cli.rs) *)

\* Option<T>: None is the empty set, Some(x) the set {x}.
None == {}
Some(x) == {x}
Unwrap(o) == CHOOSE x \in o : TRUE

\* From: the book numbers a pick predicate applies to.
From(kind, a, b) == [kind |-> kind, a |-> a, b |-> b]

\* From::matches
From_matches(from, number) ==
    CASE from.kind = "Full" -> TRUE
      [] from.kind = "Single" -> from.a = number
      [] from.kind = "RangeInclusive" -> from.a <= number /\ number <= from.b
      [] from.kind = "Range" -> from.a <= number /\ number < from.b
      [] from.kind = "RangeOpen" -> from.a <= number
      [] from.kind = "RangeTo" -> number < from.b
      [] from.kind = "RangeToInclusive" -> number <= from.b

\* To: the way a book is picked among the matches of a catalog.
To(kind, n) == [kind |-> kind, n |-> n]

\* To::pick for MostPages: max_by_key gives the last of the books with the
\* most pages.
MostPages(books) ==
    IF books = <<>> THEN None
    ELSE Some(CHOOSE i \in 0..(Len(books) - 1) :
                 /\ \A j \in 0..(Len(books) - 1) :
                       Len(books[j + 1].pages) <= Len(books[i + 1].pages)
                 /\ \A j \in (i + 1)..(Len(books) - 1) :
                       Len(books[j + 1].pages) < Len(books[i + 1].pages))

\* To::pick
To_pick(to, books) ==
    CASE to.kind = "First" /\ books # <<>> -> Some(0)
      [] to.kind = "Last" -> IF books = <<>> THEN None ELSE Some(Len(books) - 1)
      [] to.kind = "MostPages" -> MostPages(books)
      [] to.kind = "Index" /\ to.n < Len(books) -> Some(to.n)
      [] OTHER -> None

\* Picker::pick over a list of Match predicates: the first one that matches
\* the number and picks a book.
RECURSIVE PickMatches(_, _)
PickMatches(matches, catalog) ==
    IF matches = <<>> THEN None
    ELSE LET m == Head(matches)
             index == IF From_matches(m.from, catalog.number)
                      THEN To_pick(m.to, catalog.books)
                      ELSE None
         IN  IF index # None THEN index ELSE PickMatches(Tail(matches), catalog)

\* Picker::pick over the catch-all list.
RECURSIVE PickCatchAll(_, _)
PickCatchAll(catch_all, catalog) ==
    IF catch_all = <<>> THEN None
    ELSE LET index == To_pick(Head(catch_all), catalog.books)
         IN  IF index # None THEN index ELSE PickCatchAll(Tail(catch_all), catalog)

\* Picker::pick
Picker_pick(picker, catalog) ==
    LET index == PickMatches(picker.matches, catalog)
    IN  IF index # None THEN index ELSE PickCatchAll(picker.catch_all, catalog)

\* Variant: a catalog with one book waits for a pick predicate like any other.
InitialPick_PickerOnly(picker, catalog) == Picker_pick(picker, catalog)

\* The pick a catalog starts with: its only book, or what the pick
\* predicates give.
InitialPick(picker, catalog) ==
    IF Len(catalog.books) = 1 THEN Some(0) ELSE Picker_pick(picker, catalog)

\* Catalog::selected
Catalog_selected(c) ==
    IF c.picked = None \/ Unwrap(c.picked) >= Len(c.books)
    THEN None
    ELSE Some(c.books[Unwrap(c.picked) + 1])

\* Book: a directory with image files; its numbers are those in its name.
Book(dir, name, numbers, pages) ==
    [dir |-> dir, name |-> name, numbers |-> numbers,
     pages |-> [n \in 1..pages |-> n - 1]]

\* The book directories the scanned path may hold, in the order of
\* Book::key (name, then directory).
BookOrder ==
    <<Book("a", "s 1", {1}, 2),
      Book("b", "s 1", {1}, 3),
      Book("d", "s 2", {2}, 1),
      Book("c", "t 1-2", {1, 2}, 1)>>

\* The largest of the numbers in the names of the books.
LastNumber ==
    LET all == UNION {BookOrder[k].numbers : k \in DOMAIN BookOrder}
    IN  CHOOSE n \in all : \A m \in all : m <= n

\* The catalogs entry builds from the books found: one per number, in the
\* order of the numbers, its books in the order of Book::key.
Catalogs(picker, present) ==
    LET books(n) == SelectSeq(BookOrder, LAMBDA b : b \in present /\ n \in b.numbers)
        numbers == SelectSeq([n \in 1..LastNumber |-> n], LAMBDA n : books(n) # <<>>)
    IN  [k \in DOMAIN numbers |->
            LET c == [number |-> numbers[k], books |-> books(numbers[k]), picked |-> None]
            IN  [c EXCEPT !.picked = InitialPick(picker, c)]]

\* The name of the series: --name, or the name of the books when they all
\* have the same one.
SeriesName(opts, names) ==
    IF opts.name # None THEN opts.name
    ELSE IF Cardinality(names) = 1 THEN names
    ELSE None

\* The walk over the paths up to the end of the automatic picks.
BookScan ==
    /\ bookvert.pc = "scan"
    /\ LET names == {b.name : b \in bookvert.disk}
       IN  bookvert' = [bookvert EXCEPT
               !.pc = "check",
               !.names = names,
               !.name = SeriesName(bookvert.opts, names),
               !.catalogs = Catalogs(bookvert.opts.picker, bookvert.disk)]
    /\ UNCHANGED <<audiovert, call>>

\* --noninteractive: report an undetermined name and every catalog without a
\* pick, and return an error if there was any.
BookCheck ==
    /\ bookvert.pc = "check"
    /\ bookvert.opts.noninteractive
    /\ LET is_error ==
               \/ bookvert.name = None
               \/ \E k \in DOMAIN bookvert.catalogs : bookvert.catalogs[k].picked = None
       IN  bookvert' =
               IF is_error
               THEN [bookvert EXCEPT !.pc = "returned",
                        !.result = "Aborting due to non-interactive errors."]
               ELSE IF bookvert.name = None
               THEN [bookvert EXCEPT !.pc = "returned",
                        !.result = "No name specified for catalog"]
               ELSE [bookvert EXCEPT !.pc = "write", !.pos = 1]
    /\ UNCHANGED <<audiovert, call>>

\* One iteration of the loop that writes the picked book of each catalog.
BookWrite ==
    /\ bookvert.pc = "write"
    /\ bookvert.pos <= Len(bookvert.catalogs)
    /\ LET c == bookvert.catalogs[bookvert.pos]
           next == [bookvert EXCEPT !.pos = bookvert.pos + 1]
       IN  IF Catalog_selected(c) = None
           THEN bookvert' = next
           ELSE IF c.number \in bookvert.targets /\ ~bookvert.opts.force
           THEN bookvert' = next
           ELSE IF bookvert.opts.dry_run
           THEN bookvert' = next
           ELSE \E ok \in BOOLEAN :
                   bookvert' =
                       IF ok
                       THEN [next EXCEPT
                                !.out_dir = TRUE,
                                !.targets = bookvert.targets \cup {c.number},
                                !.written = Append(bookvert.written,
                                                [number |-> c.number,
                                                 book |-> Unwrap(Catalog_selected(c))])]
                       ELSE [bookvert EXCEPT !.pc = "returned",
                                !.result = "Failed to write file"]
    /\ UNCHANGED <<audiovert, call>>

\* The end of entry.
BookDone ==
    /\ bookvert.pc = "write"
    /\ bookvert.pos > Len(bookvert.catalogs)
    /\ bookvert' = [bookvert EXCEPT !.pc = "returned", !.result = "ok"]
    /\ UNCHANGED <<audiovert, call>>

\* bookvert before it is started, or not run at all.
BookvertIdle ==
    [opts |-> [name |-> None, picker |-> [matches |-> <<>>, catch_all |-> <<>>],
               force |-> FALSE, dry_run |-> FALSE, noninteractive |-> TRUE],
     disk |-> {}, out_dir |-> FALSE, targets |-> {}, targets0 |-> {},
     pc |-> "idle", pos |-> 1, names |-> {}, name |-> None, catalogs |-> <<>>,
     written |-> <<>>, result |-> ""]

----------------------------------------------------------------------------
(* Initial states *)

Configs ==
    {c \in [force : BOOLEAN, dry_run : BOOLEAN, keep_going : BOOLEAN,
            move : BOOLEAN, trash_source : BOOLEAN, meta : BOOLEAN,
            to_dir : {NoDir, OutDir}, conversion : {DefaultConversion},
            forced_bitrates : {{}}] :
        \* --keep-going is only observable when planning can record errors.
        c.keep_going => c.meta}

\* The audio files the scanned directory may hold.
SourceCandidates ==
    {Path(InDir, "x", "flac"), Path(InDir, "x", "wav"), Path(InDir, "x", "mp3")}

\* The mp3 destination the configuration gives to the candidates.
DestMp3(c) ==
    LET base == IF c.to_dir # NoDir THEN c.to_dir ELSE InDir
    IN  IF c.meta THEN MetaPath(base, "mp3") ELSE Path(base, "x", "mp3")

\* Files left behind by earlier runs: a destination and its partial file.
LeftoverCandidates(c) ==
    {DestMp3(c), with_added_extension(DestMp3(c))} \ SourceCandidates

InitFs(c, present, untagged, leftover, dest_dir, trash_dir) ==
    [files |-> [p \in present \cup leftover |->
                  IF p \in present
                  THEN Content(p, "orig", p \notin untagged)
                  ELSE Content(NoPath, "old", TRUE)],
     dirs |-> {InDir}
              \cup UNION {Ancestors(p.dir) : p \in leftover}
              \cup (IF dest_dir THEN Ancestors(DestMp3(c).dir) ELSE {})
              \cup (IF trash_dir THEN {TrashDir} ELSE {})]

Init ==
    /\ cfg \in Configs
    /\ \E present \in SUBSET SourceCandidates \ {{}} :
       \E untagged \in (IF cfg.meta THEN SUBSET present ELSE {{}}) :
       \E leftover \in SUBSET LeftoverCandidates(cfg) :
       \E dest_dir \in BOOLEAN :
       \E trash_dir \in (IF cfg.trash_source THEN BOOLEAN ELSE {FALSE}) :
          fs = InitFs(cfg, present, untagged, leftover, dest_dir, trash_dir)
    /\ fs0 = fs
    /\ db = EmptyDb
    /\ walk = Walk(fs)
    /\ tag_errors = <<>>
    /\ errors = <<>>
    /\ already_exists = <<>>
    /\ tasks = <<>>
    /\ pc = "plan"
    /\ pos = 1
    /\ to_trash = <<>>
    /\ check_empty = <<>>
    /\ log = <<>>
    /\ run = 1
    /\ prev = {}
    /\ plans = [now |-> <<>>, before |-> <<>>, same |-> FALSE]
    /\ fails = 0
    /\ bookvert = BookvertIdle
    /\ call = NoCall

Next ==
    \/ PlanEntry
    \/ Report
    \/ ExecTask
    \/ EndExec
    \/ TrashOne
    \/ CheckEmpty
    \/ NextRun

Spec == Init /\ [][Next]_vars

----------------------------------------------------------------------------
(* Planning on its own: every format, rule lists and archives *)

\* The rules --conversion may be given.
RuleCandidates ==
    {CondFromTo("lossless", "mp3"), CondFromTo("lossy", "same"),
     CondFromTo("flac", "ogg"), CondTo("mp3"), CondTo("same"), CondSame}

\* The rule lists populate can see: entry() never leaves the list empty.
RuleLists == UNION {[1..n -> RuleCandidates] : n \in 1..MaxRules}

PlanConfigs ==
    [force : BOOLEAN, dry_run : {FALSE}, keep_going : {FALSE},
     move : BOOLEAN, trash_source : {FALSE}, meta : {FALSE},
     to_dir : {NoDir, OutDir}, conversion : RuleLists \cup {DefaultConversion},
     forced_bitrates : {{}, {"mp3", "ogg"}}]

\* The contents of an archive: its entries, each with a relative path.
ArchiveContent(entries) ==
    [src |-> NoPath, enc |-> "archive", tags |-> FALSE, entries |-> entries]

\* The entries of the archive the scanned directory may hold: three audio
\* files, one of them in a directory of the archive, one file that would
\* unpack outside the archive's directory and one that is not audio.
ArchiveEntries ==
    <<[path |-> Path(<<>>, "y", "flac"), tags |-> TRUE],
      [path |-> Path(<<"cd1">>, "w", "wav"), tags |-> TRUE],
      [path |-> Path(<<".">>, "y", "mp3"), tags |-> TRUE],
      [path |-> Path(<<"..">>, "z", "mp3"), tags |-> TRUE],
      [path |-> Path(<<>>, "cover", "jpg"), tags |-> FALSE]>>

\* The mp3 files earlier runs may have left at the destinations.
PlanLeftovers(c) ==
    LET base == IF c.to_dir # NoDir THEN c.to_dir ELSE InDir
    IN  {Path(base, "x", "mp3"), Path(base \o <<"a">>, "y", "mp3")}

\* An archive that cannot be opened or parsed: none of its entries is seen.
CorruptArchive == [ArchiveContent(<<>>) EXCEPT !.enc = "corrupt"]

\* A directory entry the walk cannot read.
Unreadable == Content(NoPath, "unreadable", FALSE)

\* What can go wrong while the inputs are discovered.
Troubles == {"none", "unreadable entry", "corrupt archive"}

\* The troubles tried with a configuration and an archive or none: the rules
\* play no part in the discovery, so they are tried under the default rules.
TroublesOf(c, archive) ==
    IF c.conversion # DefaultConversion THEN {"none"}
    ELSE IF archive THEN Troubles
    ELSE Troubles \ {"corrupt archive"}

PlanFs(c, format, archive, leftover, trouble) ==
    LET source == Path(InDir, "x", format)
        zip == Path(InDir, "a", "zip")
        locked == Path(InDir, "locked", "")
        old == IF leftover THEN PlanLeftovers(c) ELSE {}
        present == {source} \cup (IF archive THEN {zip} ELSE {})
                            \cup (IF trouble = "unreadable entry" THEN {locked} ELSE {})
    IN  [files |-> [p \in present \cup old |->
                      IF p = zip
                      THEN IF trouble = "corrupt archive"
                           THEN CorruptArchive
                           ELSE ArchiveContent(ArchiveEntries)
                      ELSE IF p = locked THEN Unreadable
                      ELSE IF p = source THEN Content(p, "orig", TRUE)
                      ELSE Content(NoPath, "old", TRUE)],
         dirs |-> {InDir} \cup UNION {Ancestors(p.dir) : p \in old}]

PlanInit ==
    /\ cfg \in PlanConfigs
    /\ \E format \in FormatSet :
       \E archive \in BOOLEAN :
       \E leftover \in BOOLEAN :
       \E trouble \in TroublesOf(cfg, archive) :
          fs = PlanFs(cfg, format, archive, leftover, trouble)
    /\ fs0 = fs
    /\ db = EmptyDb
    /\ walk = Walk(fs)
    /\ tag_errors = <<>>
    /\ errors = <<>>
    /\ already_exists = <<>>
    /\ tasks = <<>>
    /\ pc = "plan"
    /\ pos = 1
    /\ to_trash = <<>>
    /\ check_empty = <<>>
    /\ log = <<>>
    /\ run = 1
    /\ prev = {}
    /\ plans = [now |-> <<>>, before |-> <<>>, same |-> FALSE]
    /\ fails = 0
    /\ bookvert = BookvertIdle
    /\ call = NoCall

PlanNext ==
    \/ PlanEntry
    \/ Report

PlanSpec == PlanInit /\ [][PlanNext]_vars

----------------------------------------------------------------------------
(* Trashing sources below the scanned directory, with several targets *)

\* --trash-source with --to; the rules give a flac file one or two targets.
TrashConfigs ==
    [force : {FALSE}, dry_run : BOOLEAN, keep_going : {FALSE},
     move : BOOLEAN, trash_source : {TRUE}, meta : {FALSE},
     to_dir : {OutDir},
     conversion : {DefaultConversion,
                   <<CondFromTo("lossless", "mp3"), CondFromTo("flac", "ogg")>>},
     forced_bitrates : {{}}]

\* A flac file in a directory of the scanned directory, and possibly an mp3
\* file next to that directory.
TrashFs(beside, dest_dir, trash_dir) ==
    LET nested == Path(InDir \o <<"sub">>, "x", "flac")
        other == Path(InDir, "x", "mp3")
        present == {nested} \cup (IF beside THEN {other} ELSE {})
    IN  [files |-> [p \in present |-> Content(p, "orig", TRUE)],
         dirs |-> {InDir, InDir \o <<"sub">>}
                  \cup (IF dest_dir THEN Ancestors(OutDir \o <<"sub">>) ELSE {})
                  \cup (IF trash_dir THEN {TrashDir} ELSE {})]

TrashInit ==
    /\ cfg \in TrashConfigs
    /\ \E beside, dest_dir, trash_dir \in BOOLEAN :
          fs = TrashFs(beside, dest_dir, trash_dir)
    /\ fs0 = fs
    /\ db = EmptyDb
    /\ walk = Walk(fs)
    /\ tag_errors = <<>>
    /\ errors = <<>>
    /\ already_exists = <<>>
    /\ tasks = <<>>
    /\ pc = "plan"
    /\ pos = 1
    /\ to_trash = <<>>
    /\ check_empty = <<>>
    /\ log = <<>>
    /\ run = 1
    /\ prev = {}
    /\ plans = [now |-> <<>>, before |-> <<>>, same |-> FALSE]
    /\ fails = 0
    /\ bookvert = BookvertIdle
    /\ call = NoCall

TrashSpec == TrashInit /\ [][Next]_vars

\* The steps of one run.  The tool is one thread that goes from one step to
\* the next without waiting for anything but the calls it makes, so a step
\* that can be taken is taken; starting the tool again is up to the user.
RunStep ==
    \/ PlanEntry
    \/ Report
    \/ ExecTask
    \/ EndExec
    \/ TrashOne
    \/ CheckEmpty

\* The runs of TrashSpec that link and start with the destination directory
\* in place, each step of a run being taken when it can be.
FairInit == TrashInit /\ ~cfg.move /\ IsDir(fs, OutDir)

FairSpec == FairInit /\ [][Next]_vars /\ WF_vars(RunStep)


----------------------------------------------------------------------------
(* Trashing two sources with one file name *)

\* --trash-source with the default rules, with and without --to.
TwinConfigs ==
    [force : {FALSE}, dry_run : {FALSE}, keep_going : {FALSE},
     move : {FALSE}, trash_source : {TRUE}, meta : {FALSE},
     to_dir : {NoDir, OutDir},
     conversion : {DefaultConversion},
     forced_bitrates : {{}}]

\* x.flac in the scanned directory and in a directory of it, and possibly an
\* mp3 file as well.
TwinFs(beside, trash_dir) ==
    LET present == {Path(InDir, "x", "flac"), Path(InDir \o <<"sub">>, "x", "flac")}
                   \cup (IF beside THEN {Path(InDir \o <<"a">>, "y", "mp3")} ELSE {})
    IN  [files |-> [p \in present |-> Content(p, "orig", TRUE)],
         dirs |-> {InDir, InDir \o <<"sub">>}
                  \cup (IF beside THEN {InDir \o <<"a">>} ELSE {})
                  \cup (IF trash_dir THEN {TrashDir} ELSE {})]

TwinInit ==
    /\ cfg \in TwinConfigs
    /\ \E beside, trash_dir \in BOOLEAN : fs = TwinFs(beside, trash_dir)
    /\ fs0 = fs
    /\ db = EmptyDb
    /\ walk = Walk(fs)
    /\ tag_errors = <<>>
    /\ errors = <<>>
    /\ already_exists = <<>>
    /\ tasks = <<>>
    /\ pc = "plan"
    /\ pos = 1
    /\ to_trash = <<>>
    /\ check_empty = <<>>
    /\ log = <<>>
    /\ run = 1
    /\ prev = {}
    /\ plans = [now |-> <<>>, before |-> <<>>, same |-> FALSE]
    /\ fails = 0
    /\ bookvert = BookvertIdle
    /\ call = NoCall

TwinSpec == TwinInit /\ [][Next]_vars

----------------------------------------------------------------------------
(* bookvert on its own *)

\* The -p predicates tried: none, `most-pages`, `1=1` and `2..=5`.
PickerCandidates ==
    {[matches |-> <<>>, catch_all |-> <<>>],
     [matches |-> <<>>, catch_all |-> <<To("MostPages", 0)>>],
     [matches |-> <<[from |-> From("Single", 1, 0), to |-> To("Index", 1)]>>,
      catch_all |-> <<>>],
     [matches |-> <<[from |-> From("RangeOpen", 2, 0), to |-> To("Index", 5)]>>,
      catch_all |-> <<>>]}

BookOpts ==
    [name : {None, Some("n")}, picker : PickerCandidates,
     force : BOOLEAN, dry_run : BOOLEAN, noninteractive : {TRUE}]

\* audiovert is not run.
AudiovertIdle ==
    /\ cfg = [force |-> FALSE, dry_run |-> FALSE, keep_going |-> FALSE,
              move |-> FALSE, trash_source |-> FALSE, meta |-> FALSE,
              to_dir |-> NoDir, conversion |-> DefaultConversion,
              forced_bitrates |-> {}]
    /\ fs = [files |-> <<>>, dirs |-> {}]
    /\ fs0 = fs
    /\ db = EmptyDb
    /\ walk = <<>>
    /\ tag_errors = <<>>
    /\ errors = <<>>
    /\ already_exists = <<>>
    /\ tasks = <<>>
    /\ pc = "idle"
    /\ pos = 1
    /\ to_trash = <<>>
    /\ check_empty = <<>>
    /\ log = <<>>
    /\ run = 1
    /\ prev = {}
    /\ plans = [now |-> <<>>, before |-> <<>>, same |-> FALSE]
    /\ fails = 0

BookInit ==
    /\ AudiovertIdle
    /\ call = NoCall
    /\ \E opts \in BookOpts :
       \E present \in SUBSET {BookOrder[n] : n \in DOMAIN BookOrder} :
       \E existing \in SUBSET (1..LastNumber) :
          bookvert = [BookvertIdle EXCEPT
                         !.opts = opts, !.disk = present, !.pc = "scan",
                         !.out_dir = existing # {},
                         !.targets = existing, !.targets0 = existing]

BookNext ==
    \/ BookScan
    \/ BookCheck
    \/ BookWrite
    \/ BookDone

BookSpec == BookInit /\ [][BookNext]_vars


----------------------------------------------------------------------------
(* bookvert: the interactive session (crates/bookvert/src/interactive.rs) *)

\* The keys that are told apart by some view, and one that is not ("a").
Keys ==
    {"Up", "Down", "Left", "Right", "Enter", "Esc", "Backspace",
     "k", "j", "h", "l", "o", " ", "q", "x", "c", "y", "n", "a"}

saturating_sub(n, m) == IF n < m THEN 0 ELSE n - m

Min(a, b) == IF a < b THEN a ELSE b

\* A view of the stack; the fields a kind of view does not have stay at their
\* defaults.
NoView ==
    [tag |-> "none", index |-> 0, category |-> 0, editing |-> FALSE,
     selected |-> FALSE, input |-> None]

\* CatalogsView::default
CatalogsView == [NoView EXCEPT !.tag = "Catalogs", !.index = 1]

\* BooksView::new
BooksView_new(category, index) ==
    [NoView EXCEPT !.tag = "Books", !.category = category, !.index = index]

\* NameView::new: the input starts with the current name.
NameView_new(current_name) == [NoView EXCEPT !.tag = "Name", !.input = current_name]

\* ConfirmView::default
ConfirmView == [NoView EXCEPT !.tag = "Confirm"]

\* ViewEvent
ViewEvent(tag, view) == [tag |-> tag, view |-> view]

NoEvent == ViewEvent("None", NoView)

\* State::picked
State_picked(catalogs) ==
    Cardinality({k \in DOMAIN catalogs : catalogs[k].picked # None})

\* The position of state.names (a BTreeSet) a name is at.
NameOrder == <<"s 1", "s 2", "t 1-2">>

NamesOf(names) == SelectSeq(NameOrder, LAMBDA n : n \in names)

\* Variant: Down has no upper end.
CatalogsDown_Unbounded(index, catalogs) == index + 1

\* CatalogsView::update, Down: the cursor stops at the last catalog.
CatalogsDown(index, catalogs) == Min(index + 1, Len(catalogs) + 1)

\* CatalogsView::update.  st is the State (name, names, catalogs).
CatalogsView_update(v, key, st) ==
    LET same == [view |-> v, st |-> st, ev |-> NoEvent]
        category == saturating_sub(v.index, 2)
    IN  CASE key \in {"Up", "k"} ->
                [same EXCEPT !.view.index = saturating_sub(v.index, 1)]
          [] key \in {"Down", "j"} ->
                [same EXCEPT !.view.index = CatalogsDown(v.index, st.catalogs)]
          [] key \in {"Right", "Enter", "l", "o", " "} ->
                IF v.index = 0
                THEN LET n == State_picked(st.catalogs)
                     IN  IF n = 0 THEN same
                         ELSE IF n < Len(st.catalogs)
                         THEN [same EXCEPT !.ev = ViewEvent("PushView", ConfirmView)]
                         ELSE [same EXCEPT !.ev = ViewEvent("Finish", NoView)]
                ELSE IF v.index = 1
                THEN [same EXCEPT !.ev = ViewEvent("PushView", NameView_new(st.name))]
                ELSE LET index == IF category < Len(st.catalogs)
                                     /\ st.catalogs[category + 1].picked # None
                                  THEN Unwrap(st.catalogs[category + 1].picked)
                                  ELSE 0
                     IN  [same EXCEPT
                             !.ev = ViewEvent("PushView", BooksView_new(category, index))]
          [] key \in {"Esc", "q"} -> [same EXCEPT !.ev = ViewEvent("PopView", NoView)]
          [] key = "x" -> [same EXCEPT !.ev = ViewEvent("Finish", NoView)]
          [] key \in {"Backspace", "c"} /\ v.index >= 2 ->
                IF category < Len(st.catalogs)
                THEN [same EXCEPT !.st.catalogs[category + 1].picked = None]
                ELSE same
          [] OTHER -> same

\* BooksView::update
BooksView_update(v, key, st) ==
    LET same == [view |-> v, st |-> st, ev |-> NoEvent]
        known == v.category < Len(st.catalogs)
    IN  CASE key \in {"Up", "k"} ->
                [same EXCEPT !.view.index = saturating_sub(v.index, 1)]
          [] key \in {"Down", "j"} ->
                IF known
                THEN [same EXCEPT !.view.index =
                         Min(v.index + 1,
                             saturating_sub(Len(st.catalogs[v.category + 1].books), 1))]
                ELSE same
          [] key \in {"Left", "h", "Esc", "q"} ->
                [same EXCEPT !.ev = ViewEvent("PopView", NoView)]
          [] key \in {"Enter", "o"} ->
                [same EXCEPT
                    !.st.catalogs = IF known
                                    THEN [st.catalogs EXCEPT
                                             ![v.category + 1].picked = Some(v.index)]
                                    ELSE st.catalogs,
                    !.ev = ViewEvent("PopAndSelectNext", NoView)]
          [] OTHER -> same

\* What the input line holds after a key went to it: nothing after Backspace
\* and an edited text after any other key.
Input_handle_event(input, key) == IF key = "Backspace" THEN None ELSE Some("m")

\* NameView::update
NameView_update(v, key, st) ==
    LET same == [view |-> v, st |-> st, ev |-> NoEvent]
        pop == [same EXCEPT !.ev = ViewEvent("PopView", NoView)]
        editing == v.editing /\ v.index = 0
        names == NamesOf(st.names)
    IN  CASE key \in {"Up", "k"} /\ ~editing ->
                [same EXCEPT !.view.index = saturating_sub(v.index, 1)]
          [] key \in {"Down", "j"} /\ ~editing ->
                [same EXCEPT !.view.index = Min(v.index + 1, Len(names))]
          [] key \in {"Left", "h"} /\ ~editing -> pop
          [] key = "Esc" ->
                IF ~editing THEN pop ELSE [same EXCEPT !.view.editing = FALSE]
          [] key = "q" /\ ~editing -> pop
          [] key \in {"Enter", "o"} ->
                IF v.index = 0
                THEN IF editing
                     THEN [pop EXCEPT !.st.name = v.input]
                     ELSE [same EXCEPT !.view.editing = TRUE]
                ELSE IF v.index - 1 < Len(names)
                THEN [pop EXCEPT !.st.name = Some(names[v.index])]
                ELSE same
          [] OTHER ->
                IF editing
                THEN [same EXCEPT !.view.input = Input_handle_event(v.input, key)]
                ELSE same

\* ConfirmView::update
ConfirmView_update(v, key, st) ==
    LET same == [view |-> v, st |-> st, ev |-> NoEvent]
    IN  CASE key \in {"Left", "h"} -> [same EXCEPT !.view.selected = FALSE]
          [] key \in {"Right", "l"} -> [same EXCEPT !.view.selected = TRUE]
          [] key \in {"Enter", " ", "o"} ->
                IF v.selected
                THEN [same EXCEPT !.ev = ViewEvent("Finish", NoView)]
                ELSE [same EXCEPT !.ev = ViewEvent("PopView", NoView)]
          [] key \in {"Esc", "q", "n"} -> [same EXCEPT !.ev = ViewEvent("PopView", NoView)]
          [] key = "y" -> [same EXCEPT !.ev = ViewEvent("Finish", NoView)]
          [] OTHER -> same

\* The `match view` of App::run.
View_update(v, key, st) ==
    CASE v.tag = "Catalogs" -> CatalogsView_update(v, key, st)
      [] v.tag = "Books"    -> BooksView_update(v, key, st)
      [] v.tag = "Name"     -> NameView_update(v, key, st)
      [] v.tag = "Confirm"  -> ConfirmView_update(v, key, st)

\* The first catalog without a pick: a position from 0, or None.
FirstUnpicked(catalogs) ==
    LET open == {k \in DOMAIN catalogs : catalogs[k].picked = None}
    IN  IF open = {} THEN None
        ELSE Some((CHOOSE k \in open : \A j \in open : k <= j) - 1)

\* The `match ev` of App::run: the view stack after the event.
ViewsAfter(views, ev, catalogs) ==
    LET popped == SubSeq(views, 1, Len(views) - 1)
    IN  CASE ev.tag = "PushView" -> Append(views, ev.view)
          [] ev.tag = "PopView" -> popped
          [] ev.tag = "PopAndSelectNext" ->
                IF popped # <<>> /\ popped[Len(popped)].tag = "Catalogs"
                   /\ FirstUnpicked(catalogs) # None
                THEN LET category == Unwrap(FirstUnpicked(catalogs))
                     IN  Append([popped EXCEPT ![Len(popped)].index = category + 2],
                                BooksView_new(category, 0))
                ELSE popped
          [] OTHER -> views

\* entry without --noninteractive: App::default and the start of App::run.
AppRun ==
    /\ bookvert.pc = "check"
    /\ ~bookvert.opts.noninteractive
    /\ bookvert' = [bookvert EXCEPT !.pc = "app"]
    /\ call' = [fn |-> "app", views |-> <<CatalogsView>>, outcome |-> None,
                finished_by |-> NoView]
    /\ UNCHANGED audiovert

\* One round of the loop of App::run: a key is read, the view on top of the
\* stack handles it and the event it returns is applied.  On Finish the loop
\* is left with true and entry goes on to the name and the books.
AppKey ==
    /\ bookvert.pc = "app"
    /\ call.views # <<>>
    /\ \E key \in Keys :
          LET top == Len(call.views)
              r == View_update(call.views[top], key,
                               [name |-> bookvert.name, names |-> bookvert.names,
                                catalogs |-> bookvert.catalogs])
              updated == [call.views EXCEPT ![top] = r.view]
              finish == r.ev.tag = "Finish"
          IN  /\ call' = [call EXCEPT
                    !.views = ViewsAfter(updated, r.ev, r.st.catalogs),
                    !.outcome = IF finish THEN Some(TRUE) ELSE None,
                    !.finished_by = IF finish THEN r.view ELSE NoView]
              /\ bookvert' = [bookvert EXCEPT
                    !.name = r.st.name,
                    !.catalogs = r.st.catalogs,
                    !.pos = 1,
                    !.pc = IF ~finish THEN "app"
                           ELSE IF r.st.name = None THEN "returned" ELSE "write",
                    !.result = IF finish /\ r.st.name = None
                               THEN "No name specified for catalog" ELSE ""]
    /\ UNCHANGED audiovert

\* The loop of App::run finds no view: it is left with false and entry
\* returns the error.
AppCancel ==
    /\ bookvert.pc = "app"
    /\ call.views = <<>>
    /\ call' = [call EXCEPT !.outcome = Some(FALSE)]
    /\ bookvert' = [bookvert EXCEPT !.pc = "returned",
                       !.result = "Aborting due to user cancellation."]
    /\ UNCHANGED audiovert

\* The interactive session: a series with or without --name, with no pick
\* predicate or `most-pages`.
AppOpts ==
    [name : {None, Some("n")},
     picker : {[matches |-> <<>>, catch_all |-> <<>>],
               [matches |-> <<[from |-> From("Single", 1, 0), to |-> To("Index", 1)]>>,
                catch_all |-> <<>>]},
     force : {FALSE}, dry_run : {FALSE}, noninteractive : {FALSE}]

AppInit ==
    /\ AudiovertIdle
    /\ call = NoCall
    /\ \E opts \in AppOpts :
       \E present \in SUBSET {BookOrder[n] : n \in DOMAIN BookOrder} :
          bookvert = [BookvertIdle EXCEPT !.opts = opts, !.disk = present, !.pc = "scan"]

AppNext ==
    \/ BookScan
    \/ AppRun
    \/ AppKey
    \/ AppCancel
    \/ BookWrite
    \/ BookDone

AppSpec == AppInit /\ [][AppNext]_vars

----------------------------------------------------------------------------
(* The source registry on its own *)

\* The files and archives pushed.
PushedFiles == {Path(InDir, "x", "flac"), Path(InDir, "x", "mp3")}

PushedArchives ==
    {SourceArchive("zip", Path(InDir, "a", "zip")),
     SourceArchive("rar", Path(InDir, "b", "rar"))}

\* A push and the id it returned.
Pushed(op, id, value) == [op |-> op, id |-> id, value |-> value]

DbPushFile ==
    /\ pc = "idle"
    /\ Len(log) < MaxPush
    /\ \E link \in PushedFiles :
          LET pushed == push_file(db, link)
          IN  /\ db' = pushed.db
              /\ log' = Append(log, Pushed("push_file", pushed.id, link))
    /\ UNCHANGED <<cfg, fs, fs0, walk, tag_errors, errors, already_exists, tasks,
                   pc, pos, to_trash, check_empty, run, prev, plans, fails>>
    /\ UNCHANGED others

DbPushArchive ==
    /\ pc = "idle"
    /\ Len(log) < MaxPush
    /\ \E archive \in PushedArchives :
          LET pushed == push_archive(db, archive)
          IN  /\ db' = pushed.db
              /\ log' = Append(log, Pushed("push_archive", pushed.id, archive))
    /\ UNCHANGED <<cfg, fs, fs0, walk, tag_errors, errors, already_exists, tasks,
                   pc, pos, to_trash, check_empty, run, prev, plans, fails>>
    /\ UNCHANGED others

\* A new registry.
DbInit ==
    /\ AudiovertIdle
    /\ bookvert = BookvertIdle
    /\ call = NoCall

DbNext ==
    \/ DbPushFile
    \/ DbPushArchive

DbSpec == DbInit /\ [][DbNext]_vars

----------------------------------------------------------------------------
(* sanitize on its own (crates/audiovert/src/meta.rs) *)

\* A string is the sequence of its characters.
is_whitespace(c) == c \in {" ", "\t"}

\* Variant: '*' is kept.
SanMap_KeepStar(c) ==
    CASE c \in {"\\", "/"} -> Some(<<"+">>)
      [] c \in {"<", ">", "?", "|", "\""} -> Some(<<>>)
      [] OTHER -> None

\* map, the function local to sanitize: the replacement of a character.
SanMap(c) ==
    CASE c \in {"\\", "/"} -> Some(<<"+">>)
      [] c \in {"<", ">", "?", "|", "\""} -> Some(<<>>)
      [] c = "*" -> Some(<<"-">>)
      [] OTHER -> None

\* The loop of sanitize over the rest of the string, from the first
\* character that is replaced.
RECURSIVE SanitizeRest(_, _)
SanitizeRest(rest, last_whitespace) ==
    IF rest = <<>> THEN <<>>
    ELSE LET c == Head(rest)
         IN  IF c = ":"
             THEN IF Len(rest) >= 2 /\ is_whitespace(rest[2])
                  THEN <<" ", "-", " ">>
                           \o SanitizeRest(SubSeq(rest, 3, Len(rest)), last_whitespace)
                  ELSE <<"-">> \o SanitizeRest(Tail(rest), last_whitespace)
             ELSE IF SanMap(c) # None
             THEN Unwrap(SanMap(c)) \o SanitizeRest(Tail(rest), last_whitespace)
             ELSE IF last_whitespace /\ is_whitespace(c)
             THEN SanitizeRest(Tail(rest), last_whitespace)
             ELSE <<c>> \o SanitizeRest(Tail(rest), is_whitespace(c))

\* sanitize: a string with no ':' and no replaced character is returned as
\* it is; otherwise the part before the first such character is copied and
\* the rest goes through the loop.
sanitize(s) ==
    LET special == {n \in DOMAIN s : s[n] = ":" \/ SanMap(s[n]) # None}
    IN  IF special = {} THEN s
        ELSE LET n == CHOOSE k \in special : \A m \in special : k <= m
             IN  SubSeq(s, 1, n - 1) \o SanitizeRest(SubSeq(s, n, Len(s)), FALSE)

\* The characters the tag values are made of.
Chars == {"a", " ", "\t", ":", "/", "*", "<"}

\* The tag values sanitize is applied to.
Strings == UNION {[1..n -> Chars] : n \in 0..MaxLen}

\* push_sanitized: a tag value is sanitized.
Sanitize ==
    /\ call.fn = "sanitize"
    /\ call.pc = "start"
    /\ call' = [call EXCEPT !.pc = "once", !.output = sanitize(call.input)]
    /\ UNCHANGED <<audiovert, bookvert>>

\* The sanitized value is sanitized again.
SanitizeAgain ==
    /\ call.fn = "sanitize"
    /\ call.pc = "once"
    /\ call' = [call EXCEPT !.pc = "twice", !.again = sanitize(call.output)]
    /\ UNCHANGED <<audiovert, bookvert>>

SanInit ==
    /\ AudiovertIdle
    /\ bookvert = BookvertIdle
    /\ \E s \in Strings :
          call = [fn |-> "sanitize", pc |-> "start", input |-> s,
                  output |-> <<>>, again |-> <<>>]

SanNext ==
    \/ Sanitize
    \/ SanitizeAgain

SanSpec == SanInit /\ [][SanNext]_vars

----------------------------------------------------------------------------
(* The reporting sink on its own (out.rs) *)

\* usize::saturating_add_signed and usize::saturating_sub_signed.  The upper
\* end of usize is out of reach of a level that MaxDepth bounds.
saturating_add_signed(n, change) == IF n + change < 0 THEN 0 ELSE n + change

saturating_sub_signed(n, change) == IF n - change < 0 THEN 0 ELSE n - change

\* Drop for Out: the level is taken back by the change of the scope.
Out_drop_Keep(level, scope) == level

Out_drop(level, scope) == saturating_sub_signed(level, scope.change)

\* The level after the last k scopes were dropped, innermost first.
RECURSIVE DropScopes(_, _, _)
DropScopes(level, scopes, k) ==
    IF k = 0 THEN level
    ELSE DropScopes(Out_drop(level, scopes[Len(scopes)]),
                    SubSeq(scopes, 1, Len(scopes) - 1), k - 1)

\* What is left of the sink after the last k scopes were dropped; `how` says
\* whether they were left at their end or by an error return.
Left(k, how) ==
    [call EXCEPT !.indent = DropScopes(call.indent, call.scopes, k),
                 !.scopes = SubSeq(call.scopes, 1, Len(call.scopes) - k),
                 !.left = how,
                 !.pc = IF k = Len(call.scopes) THEN "closed" ELSE "open"]

\* Out::indent: every call site passes 1.  `entered` remembers the level at
\* the time of the call.
OutIndent ==
    /\ call.fn = "out" /\ call.pc = "open"
    /\ Len(call.scopes) <= MaxDepth
    /\ call' = [call EXCEPT
          !.indent = saturating_add_signed(call.indent, 1),
          !.scopes = Append(call.scopes, [change |-> 1, entered |-> call.indent])]
    /\ UNCHANGED <<audiovert, bookvert>>

\* Out::blank, info, warn, error: a line prefixed by the current level.
OutLine ==
    /\ call.fn = "out" /\ call.pc = "open"
    /\ Len(call.lines) < MaxLines
    /\ call' = [call EXCEPT !.lines = Append(call.lines, call.indent)]
    /\ UNCHANGED <<audiovert, bookvert>>

\* The innermost scope ends.
OutLeave ==
    /\ call.fn = "out" /\ call.pc = "open"
    /\ call' = Left(1, "end")
    /\ UNCHANGED <<audiovert, bookvert>>

\* A line cannot be written and `?` returns the error through k scopes.
OutLineFails ==
    /\ call.fn = "out" /\ call.pc = "open"
    /\ \E k \in 1..Len(call.scopes) : call' = Left(k, "error")
    /\ UNCHANGED <<audiovert, bookvert>>

\* Out::new in run: the level starts at 0 and the first sink has change 0.
OutInit ==
    /\ AudiovertIdle
    /\ bookvert = BookvertIdle
    /\ call = [fn |-> "out", pc |-> "open", indent |-> 0,
               scopes |-> <<[change |-> 0, entered |-> 0]>>,
               lines |-> <<>>, left |-> "none"]

OutNext ==
    \/ OutIndent
    \/ OutLine
    \/ OutLeave
    \/ OutLineFails

OutSpec == OutInit /\ [][OutNext]_vars

----------------------------------------------------------------------------
(* The --bitrates rules on their own (entry, cli.rs 172-193) *)

\* Bitrates::default: the map of DEFAULT_BITRATES.
DEFAULT_BITRATES == [f \in {"aac", "mp3", "ogg"} |-> IF f = "mp3" THEN 320 ELSE 192]

\* Format::default_bitrate.
default_bitrate(f) ==
    CASE f = "aac" -> Some(192)
      [] f = "mp3" -> Some(320)
      [] f = "ogg" -> Some(192)
      [] OTHER     -> None

\* Variant: every format of the map is picked.
pick_bitrates_All(from, bitrates) == DOMAIN bitrates

\* FromCondition::pick_bitrates: the formats of the map that `from` matches.
pick_bitrates(from, bitrates) == {f \in DOMAIN bitrates : FromMatches(from, f)}

\* The froms and numbers of the rules given on the command line.
BitrateFroms == {"lossless", "lossy", "aac", "flac", "mp3", "ogg"}

BitrateNumbers == {0, 128, 256}

SetBitRate == [from : BitrateFroms, bitrate : BitrateNumbers]

SetBitRates == UNION {[1..n -> SetBitRate] : n \in 0..MaxBitrates}

\* One round of the loop over opts.bitrates: the rule at pos + 1.  `before`
\* keeps the map and the forced formats as they were before the rule.
ApplyBitrate ==
    /\ call.fn = "bitrates" /\ call.pc = "rules"
    /\ call.pos < Len(call.rules)
    /\ LET rule == call.rules[call.pos + 1]
           picked == pick_bitrates(rule.from, call.bitrates)
       IN  IF \E f \in picked : default_bitrate(f) = None
           THEN call' = [call EXCEPT !.pc = "bailed"]
           ELSE call' = [call EXCEPT
                   !.pos = call.pos + 1,
                   !.before = [bitrates |-> call.bitrates,
                               forced_bitrates |-> call.forced_bitrates],
                   !.forced_bitrates =
                       IF call.force_bitrates THEN call.forced_bitrates \cup picked
                       ELSE call.forced_bitrates,
                   !.bitrates = [f \in DOMAIN call.bitrates |->
                       IF f \in picked
                       THEN IF rule.bitrate = 0 THEN Unwrap(default_bitrate(f))
                            ELSE rule.bitrate
                       ELSE call.bitrates[f]]]
    /\ UNCHANGED <<audiovert, bookvert>>

\* The loop is over.
BitratesDone ==
    /\ call.fn = "bitrates" /\ call.pc = "rules"
    /\ call.pos = Len(call.rules)
    /\ call' = [call EXCEPT !.pc = "done"]
    /\ UNCHANGED <<audiovert, bookvert>>

BitInit ==
    /\ AudiovertIdle
    /\ bookvert = BookvertIdle
    /\ \E rules \in SetBitRates, force \in BOOLEAN :
          call = [fn |-> "bitrates", pc |-> "rules", rules |-> rules,
                  force_bitrates |-> force, pos |-> 0,
                  bitrates |-> DEFAULT_BITRATES, forced_bitrates |-> {},
                  before |-> [bitrates |-> DEFAULT_BITRATES, forced_bitrates |-> {}]]

BitNext ==
    \/ ApplyBitrate
    \/ BitratesDone

BitSpec == BitInit /\ [][BitNext]_vars

----------------------------------------------------------------------------
(* Vocabulary of the properties *)

\* The calls of the task loop, and among them the main action of a task.
TaskOps == {"rm", "mkdir", "enc", "rename", "link", "move", "copy"}
MainOps == {"enc", "rename", "link", "move", "copy"}

\* The positions in the log of the task-loop calls made for the task with
\* the given index.
EventsOf(index) ==
    {k \in DOMAIN log : log[k].op \in TaskOps /\ log[k].task = index}

\* Done, spelled out on the fields of a task.
Done(t) ==
    /\ (t.kind = "Transfer" \/ t.converted)
    /\ t.moved
    /\ t.pre_remove = <<>>

\* The task loop has not yet reached the task at position i.
NotReached(i) == pc = "plan" \/ (pc = "exec" /\ pos <= i)

\* The task loop is over in the current run.
LoopOver == pc \in {"trash", "check", "done"}

\* The paths queued in a task's pre_remove list.
Queued(t) == {t.pre_remove[k].path : k \in DOMAIN t.pre_remove}

\* The destination (or partial file) was there when the run started.
ExistedAtPlanning(p) == FileExists(fs0, p)

----------------------------------------------------------------------------
(* C1 *)

\* C1: a task is done exactly when its kind is completed, moved is set and
\* pre_remove is empty; when the task loop reaches a done task it makes no
\* call and changes neither the filesystem nor the task list.
C1_DoneTaskIsSkipped ==
    [][(pc = "exec" /\ pos <= Len(tasks)) =>
          /\ TaskIsCompleted(tasks[pos]) <=> Done(tasks[pos])
          /\ Done(tasks[pos]) => (fs' = fs /\ log' = log /\ tasks' = tasks)]_vars

\* The loop has just passed a first task that was done when it was reached,
\* in a run that makes real calls and has more tasks to run.
C1_Witness ==
    /\ pc = "exec" /\ pos = 2 /\ Len(tasks) >= 2
    /\ ~cfg.dry_run
    /\ Done(tasks[1])
    /\ log = <<>>

----------------------------------------------------------------------------
(* C2 *)

\* The tasks of the current plan whose (source, destination) pair was done
\* after the previous run.
DoneBefore ==
    {i \in DOMAIN tasks :
        <<Db_to_path(db, tasks[i].source), tasks[i].to_path>> \in prev}

\* C2 as stated: in a second run, no call of the task loop is made for a task
\* that succeeded in the first run, whatever the configuration.
C2_Original ==
    run >= 2 => \A i \in DoneBefore : EventsOf(tasks[i].index) = {}

\* C2: when --force is not set, a second run makes no mkdir, encoder, rename,
\* link, move or copy call and removes no destination for a task that
\* succeeded in the first run; the only call it can make for such a task is
\* the removal of a partial file found at <destination>.<part-ext>.
C2_CompletionStability ==
    (run >= 2 /\ ~cfg.force) =>
        \A i \in DoneBefore :
            \A k \in EventsOf(tasks[i].index) :
                /\ log[k].op = "rm"
                /\ log[k].path = with_added_extension(tasks[i].to_path)

\* A second run is over, without --force and with real calls; one of its tasks
\* was done after the first run, which produced its destination, and the
\* source is still there.
C2_Witness ==
    /\ run = 2 /\ pc = "done"
    /\ ~cfg.force /\ ~cfg.dry_run
    /\ \E i \in DoneBefore :
        /\ FileExists(fs, tasks[i].to_path)
        /\ fs.files[tasks[i].to_path].enc = "mp3"
        /\ FileExists(fs, Db_to_path(db, tasks[i].source))
        /\ EventsOf(tasks[i].index) = {}

----------------------------------------------------------------------------
(* C3 *)

\* The task with the given index.
TaskAt(index) == tasks[index + 1]

\* An earlier call in the log of the same task, with the given name, that
\* succeeded.
EarlierOk(k, op) ==
    \E j \in 1..(k - 1) :
        log[j].op = op /\ log[j].task = log[k].task /\ log[j].ok

\* C3: the encoder of a Convert task writes to the partial path, never to the
\* destination; the destination is written only by the rename of the partial
\* path, and the rename is attempted only after the encoder succeeded for
\* that task in this run.
C3_PartialThenRename ==
    \A k \in DOMAIN log :
        /\ log[k].op = "enc" =>
              /\ TaskAt(log[k].task).kind = "Convert"
              /\ log[k].path = with_added_extension(TaskAt(log[k].task).to_path)
              /\ log[k].path # TaskAt(log[k].task).to_path
        /\ log[k].op = "rename" =>
              /\ log[k].from = with_added_extension(TaskAt(log[k].task).to_path)
              /\ log[k].path = TaskAt(log[k].task).to_path
              /\ EarlierOk(k, "enc")
        /\ (/\ log[k].op \in TaskOps \ {"rm"}
            /\ TaskAt(log[k].task).kind = "Convert"
            /\ log[k].path = TaskAt(log[k].task).to_path) => log[k].op = "rename"

\* A Convert task ran the encoder and then renamed the partial file.
C3_Witness ==
    \E k \in DOMAIN log :
        /\ log[k].op = "rename" /\ log[k].ok
        /\ TaskAt(log[k].task).moved
        /\ FileExists(fs, log[k].path)

----------------------------------------------------------------------------
(* C4 *)

\* C4 as stated: converted is false when a Convert task is created and true
\* only after the encoder succeeded for the task.
C4_Original ==
    \A i \in DOMAIN tasks :
        (tasks[i].kind = "Convert" /\ tasks[i].converted) =>
            \E k \in EventsOf(tasks[i].index) : log[k].op = "enc" /\ log[k].ok

\* C4: a Convert task is created with converted false unless its destination
\* exists at planning time and --force is not set, in which case it is created
\* with converted true; outside a dry run converted turns true only after the
\* encoder succeeded for the task, and a dry run sets it without an encoder.
C4_ConvertedOnlyAfterSuccess ==
    \A i \in DOMAIN tasks :
        tasks[i].kind = "Convert" =>
            /\ NotReached(i) =>
                  (tasks[i].converted <=>
                      (ExistedAtPlanning(tasks[i].to_path) /\ ~cfg.force))
            /\ tasks[i].converted =>
                  \/ ExistedAtPlanning(tasks[i].to_path) /\ ~cfg.force
                  \/ cfg.dry_run
                  \/ \E k \in EventsOf(tasks[i].index) : log[k].op = "enc" /\ log[k].ok

\* The loop is over; one Convert task was created for an existing destination
\* and another one ran the encoder, which failed and left it unconverted.
C4_Witness ==
    /\ LoopOver /\ ~cfg.dry_run
    /\ \E i \in DOMAIN tasks :
        /\ tasks[i].kind = "Convert" /\ tasks[i].converted
        /\ \E k \in EventsOf(tasks[i].index) : log[k].op = "enc" /\ log[k].ok
    /\ \E i \in DOMAIN tasks :
        /\ tasks[i].kind = "Convert" /\ ~tasks[i].converted
        /\ \E k \in EventsOf(tasks[i].index) : log[k].op = "enc" /\ ~log[k].ok

----------------------------------------------------------------------------
(* C5 *)

\* C5: when the partial file of a Convert task exists at planning time its
\* removal is queued in pre_remove, and the removal is attempted before the
\* encoder is invoked for the task.
C5_StalePartialRemovedFirst ==
    \A i \in DOMAIN tasks :
        (/\ tasks[i].kind = "Convert"
         /\ ExistedAtPlanning(with_added_extension(tasks[i].to_path))) =>
            /\ NotReached(i) =>
                  with_added_extension(tasks[i].to_path) \in Queued(tasks[i])
            /\ \A k \in EventsOf(tasks[i].index) :
                  log[k].op = "enc" =>
                      \E j \in 1..(k - 1) :
                          /\ log[j].op = "rm"
                          /\ log[j].task = tasks[i].index
                          /\ log[j].path = with_added_extension(tasks[i].to_path)

\* A Convert task found a partial file at planning time, removed it and then
\* ran the encoder.
C5_Witness ==
    \E i \in DOMAIN tasks :
        /\ tasks[i].kind = "Convert"
        /\ ExistedAtPlanning(with_added_extension(tasks[i].to_path))
        /\ \E k \in EventsOf(tasks[i].index) :
              /\ log[k].op = "enc"
              /\ \E j \in 1..(k - 1) :
                    log[j].op = "rm" /\ log[j].task = tasks[i].index /\ log[j].ok

----------------------------------------------------------------------------
(* C6 *)

\* C6 as stated: the main action of a task runs only if every pre-removal of
\* the task succeeded.
C6_Original ==
    \A k \in DOMAIN log :
        log[k].op \in MainOps =>
            \A j \in 1..(k - 1) :
                (log[j].op = "rm" /\ log[j].task = log[k].task) => log[j].ok

----------------------------------------------------------------------------
(* C7 *)

\* An already-exists diagnostic was recorded for the task.
Diagnosed(t) ==
    \E n \in DOMAIN already_exists :
        already_exists[n].source = t.source /\ already_exists[n].path = t.to_path

\* C7 as stated: a task whose destination exists at planning time without
\* --force is diagnosed, done right after planning and skipped by the loop.
C7_Original ==
    \A i \in DOMAIN tasks :
        (ExistedAtPlanning(tasks[i].to_path) /\ ~cfg.force) =>
            /\ Diagnosed(tasks[i])
            /\ NotReached(i) => Done(tasks[i])
            /\ EventsOf(tasks[i].index) = {}

\* The task is a Convert whose partial file was there at planning time.
HasStalePartial(t) ==
    t.kind = "Convert" /\ ExistedAtPlanning(with_added_extension(t.to_path))

\* C7: a task whose destination exists at planning time without --force is
\* diagnosed and created with moved set and a completed kind; the loop runs no
\* main action and makes no directory for it.  It is done right after planning
\* and skipped, unless it is a Convert whose partial file exists at planning
\* time: then its one step is the removal of that partial file.
C7_ExistingDestinationKept ==
    \A i \in DOMAIN tasks :
        (ExistedAtPlanning(tasks[i].to_path) /\ ~cfg.force) =>
            /\ Diagnosed(tasks[i])
            /\ tasks[i].moved
            /\ tasks[i].kind = "Convert" => tasks[i].converted
            /\ NotReached(i) => (Done(tasks[i]) <=> ~HasStalePartial(tasks[i]))
            /\ \A k \in EventsOf(tasks[i].index) :
                  /\ HasStalePartial(tasks[i])
                  /\ log[k].op = "rm"
                  /\ log[k].path = with_added_extension(tasks[i].to_path)

\* The loop is over in a run with real calls: one task was done at planning
\* time and saw no call, another had its stale partial file removed.
C7_Witness ==
    /\ LoopOver /\ ~cfg.dry_run /\ ~cfg.force
    /\ \E i \in DOMAIN tasks :
        /\ ExistedAtPlanning(tasks[i].to_path)
        /\ EventsOf(tasks[i].index) # {}
        /\ FileExists(fs, tasks[i].to_path)
        /\ fs.files[tasks[i].to_path] = fs0.files[tasks[i].to_path]
    /\ \E i \in DOMAIN tasks :
        /\ ExistedAtPlanning(tasks[i].to_path)
        /\ EventsOf(tasks[i].index) = {}

----------------------------------------------------------------------------
(* C8 *)

\* C8 as stated: with --force, an existing destination is queued for removal,
\* the task is created not moved and not converted, and the destination has
\* been removed by the task before its main action runs.
C8_Original ==
    \A i \in DOMAIN tasks :
        (ExistedAtPlanning(tasks[i].to_path) /\ cfg.force) =>
            /\ NotReached(i) =>
                  /\ tasks[i].to_path \in Queued(tasks[i])
                  /\ ~tasks[i].moved
                  /\ tasks[i].kind = "Convert" => ~tasks[i].converted
            /\ \A k \in EventsOf(tasks[i].index) :
                  log[k].op \in MainOps =>
                      \E j \in 1..(k - 1) :
                          /\ log[j].op = "rm"
                          /\ log[j].task = tasks[i].index
                          /\ log[j].path = tasks[i].to_path
                          /\ ~log[j].after

----------------------------------------------------------------------------
(* C9 *)

\* C9 as stated: without --force, a file at the destination of a task is
\* neither replaced nor deleted by any step.
C9_Original ==
    [][~cfg.force =>
          \A i \in DOMAIN tasks :
              FileExists(fs, tasks[i].to_path) =>
                  /\ FileExists(fs', tasks[i].to_path)
                  /\ fs'.files[tasks[i].to_path] = fs.files[tasks[i].to_path]]_vars

----------------------------------------------------------------------------
(* C10 *)

\* C10: when planning recorded an error and --keep-going is not set, the run
\* aborts before the task loop: it makes no call, builds no trash list and
\* leaves the filesystem as it found it.
C10_AbortBeforeExecution ==
    (errors # <<>> /\ ~cfg.keep_going) =>
        /\ pc \in {"plan", "aborted"}
        /\ log = <<>>
        /\ to_trash = <<>>
        /\ fs = fs0

\* A run with real calls and trashing requested was aborted with a task that
\* still had work to do.
C10_Witness ==
    /\ pc = "aborted"
    /\ ~cfg.dry_run /\ cfg.trash_source
    /\ \E i \in DOMAIN tasks : ~Done(tasks[i])

----------------------------------------------------------------------------
(* C11 *)

\* The task loop has gone past the task at position i in the current run.
Passed(i) == LoopOver \/ (pc = "exec" /\ pos > i)

\* The task was done when planning pushed it: its destination was there,
\* --force was not set and no partial file was queued for removal.
PlannedDone(t) ==
    /\ ExistedAtPlanning(t.to_path)
    /\ ~cfg.force
    /\ ~HasStalePartial(t)

\* A call of the task's main action (or the mkdir in front of it) failed.
MainActionFailed(t) ==
    \E k \in EventsOf(t.index) : log[k].op \in MainOps \cup {"mkdir"} /\ ~log[k].ok

\* The main action of the task was started: the encoder, link or move was
\* called, or the mkdir in front of it was.
MainActionStarted(t) ==
    \E k \in EventsOf(t.index) : log[k].op \in {"mkdir", "enc", "link", "move", "copy"}

\* C11: whatever calls fail, a task whose main action failed is not done
\* once the loop has passed it, and every task that was not done at planning
\* time is attempted when the loop reaches it, also after a failure of an
\* earlier task: a call is made for it, and its main action is started unless
\* its destination was kept.
C11_FailureLeavesTaskIncomplete ==
    \A i \in DOMAIN tasks :
        /\ NotReached(i) => (Done(tasks[i]) <=> PlannedDone(tasks[i]))
        /\ Passed(i) =>
              /\ MainActionFailed(tasks[i]) => ~Done(tasks[i])
              /\ (~PlannedDone(tasks[i]) /\ ~cfg.dry_run) =>
                    /\ EventsOf(tasks[i].index) # {}
                    /\ (~ExistedAtPlanning(tasks[i].to_path) \/ cfg.force) =>
                          MainActionStarted(tasks[i])

\* The loop is over: the main action of one task failed, leaving it not done,
\* and a later task was run to completion.
C11_Witness ==
    /\ LoopOver
    /\ \E i, j \in DOMAIN tasks :
        /\ i < j
        /\ MainActionFailed(tasks[i]) /\ ~Done(tasks[i])
        /\ ~PlannedDone(tasks[j]) /\ Done(tasks[j])
        /\ \E k \in EventsOf(tasks[j].index) : log[k].op \in MainOps /\ log[k].ok

----------------------------------------------------------------------------
(* C12 *)

\* C12: in a dry run no call is made (no removal, mkdir, encoder, rename,
\* link, move, trash or rmdir) and the filesystem stays as the run found it.
C12_DryRunChangesNothing ==
    cfg.dry_run => (log = <<>> /\ fs = fs0)

\* A dry run is over whose plan had a stale partial file to remove, a task to
\* run whose destination is still missing, and a source to trash into a trash
\* directory that is not there.
C12_Witness ==
    /\ cfg.dry_run /\ pc = "done"
    /\ to_trash # <<>> /\ ~IsDir(fs, TrashDir)
    /\ \E i \in DOMAIN tasks :
        /\ HasStalePartial(tasks[i])
        /\ FileExists(fs, with_added_extension(tasks[i].to_path))
    /\ \E i \in DOMAIN tasks :
        ~PlannedDone(tasks[i]) /\ ~FileExists(fs, tasks[i].to_path)

----------------------------------------------------------------------------
(* C13 *)

\* C13: in a dry run every task the loop has passed is done: its kind is
\* completed, moved is set and pre_remove is empty.
C13_DryRunCompletesEveryTask ==
    cfg.dry_run =>
        \A i \in DOMAIN tasks :
            Passed(i) =>
                /\ KindIsCompleted(tasks[i])
                /\ tasks[i].moved
                /\ tasks[i].pre_remove = <<>>

\* The loop of a dry run is over; its plan had a Convert and a Transfer that
\* were not done at planning time, and a destination that is still missing.
C13_Witness ==
    /\ cfg.dry_run /\ LoopOver
    /\ \E i, j \in DOMAIN tasks :
        /\ tasks[i].kind = "Convert" /\ ~PlannedDone(tasks[i])
        /\ ~FileExists(fs, tasks[i].to_path)
        /\ tasks[j].kind = "Transfer" /\ ~PlannedDone(tasks[j])

----------------------------------------------------------------------------
(* C14 *)

\* The task is done and is not a move.
Trashable(t) == Done(t) /\ ~(t.kind = "Transfer" /\ t.transfer = "Move")

\* C14: a source is moved to the trash directory only when --trash-source is
\* set, only after the task loop is over (no call of the loop follows it), and
\* only if it is the source of a task that is done and is not a move; the
\* trash directory is only made when there is such a task.
C14_TrashOnlyCompletedSources ==
    /\ (to_trash # <<>> \/ pc \in {"trash", "check"}) => cfg.trash_source
    /\ \A n \in DOMAIN to_trash :
          /\ to_trash[n].trash_path.dir = TrashDir
          /\ \E i \in DOMAIN tasks :
                Trashable(tasks[i]) /\ Db_to_path(db, tasks[i].source) = to_trash[n].from
    /\ \A k \in DOMAIN log :
          log[k].op \in {"trash", "mktrash"} =>
              /\ cfg.trash_source
              /\ LoopOver
              /\ \A j \in DOMAIN log : log[j].op \in TaskOps => j < k
              /\ \E i \in DOMAIN tasks : Trashable(tasks[i])
              /\ log[k].op = "trash" =>
                    /\ log[k].path.dir = TrashDir
                    /\ \E i \in DOMAIN tasks :
                          /\ Trashable(tasks[i])
                          /\ Db_to_path(db, tasks[i].source) = log[k].from

\* The trash directory was made and the source of a done task moved into it,
\* while the source of a task that failed stays where it was.
C14_Witness ==
    /\ pc = "done"
    /\ \E k \in DOMAIN log : log[k].op = "mktrash" /\ log[k].ok
    /\ \E k \in DOMAIN log :
        /\ log[k].op = "trash" /\ log[k].ok
        /\ ~FileExists(fs, log[k].from) /\ FileExists(fs, log[k].path)
    /\ \E i \in DOMAIN tasks :
        /\ ~Done(tasks[i])
        /\ FileExists(fs, Db_to_path(db, tasks[i].source))
        /\ \A n \in DOMAIN to_trash :
              to_trash[n].from # Db_to_path(db, tasks[i].source)

----------------------------------------------------------------------------
(* Vocabulary of the planning properties *)

\* The plain files populate has registered and planned so far.
FileSources == {SourceFile(n - 1) : n \in DOMAIN db.files}

\* The files in archives populate has planned so far.
ArchivedSources ==
    UNION {{SourceInArchive(a - 1, e.path) :
                e \in {fs0.files[db.archives[a].path].entries[n] :
                          n \in {m \in DOMAIN fs0.files[db.archives[a].path].entries :
                                    ~HasParentDir(fs0.files[db.archives[a].path].entries[m].path)}}} :
           a \in DOMAIN db.archives}

\* The format of a source, "" when it is not an audio file.
FromOf(source) == Format_from_ext(Db_ext(db, source))

\* The sources whose targets were computed: audio files, with readable tags
\* when --meta is set.
PlannedSources ==
    {s \in FileSources \cup ArchivedSources :
        FromOf(s) # "" /\ (cfg.meta => Parts_from_source(fs0, db, s).parts)}

\* The target formats of a source, as a set.
TargetsOf(source) ==
    LET tos == ToFormats(cfg.conversion, FromOf(source))
    IN  {tos[k] : k \in DOMAIN tos}

\* The destination populate computes for (source, to).
DestOf(source, to) == ToPath(cfg, db, source, InDir, cfg.meta, to)

\* The tasks of the plan for (source, destination).
TasksFor(source, to_path) ==
    {i \in DOMAIN tasks : tasks[i].source = source /\ tasks[i].to_path = to_path}

\* The target format of a task: the extension of its destination.
ToOf(t) == extension(t.to_path)

\* The position of a format in the Format enumeration.
FormatIndex(f) == CHOOSE n \in DOMAIN Formats : Formats[n] = f

----------------------------------------------------------------------------
(* C15 *)

\* C15: every Transfer task whose source is in an archive has kind Copy,
\* whatever the configuration, so that Db::move_to gives none of its
\* "cannot link / move from archive" errors for a task of the plan.
C15_ArchiveTransfersAreCopies ==
    \A i \in DOMAIN tasks :
        tasks[i].kind = "Transfer" =>
            /\ tasks[i].source.origin = "Archive" => tasks[i].transfer = "Copy"
            /\ Db_move_to(tasks[i].source, tasks[i].transfer) = "ok"

\* With --move set, the plan holds a Transfer from an archive next to a
\* Transfer of a plain file, which is a Move.
C15_Witness ==
    /\ cfg.move /\ pc # "plan"
    /\ \E i, j \in DOMAIN tasks :
        /\ tasks[i].kind = "Transfer" /\ tasks[i].source.origin = "Archive"
        /\ tasks[i].transfer = "Copy"
        /\ tasks[j].kind = "Transfer" /\ tasks[j].source.origin = "File"
        /\ tasks[j].transfer = "Move"

----------------------------------------------------------------------------
(* C16 *)

\* C16: a task is a Transfer exactly when the format of its source equals its
\* target format and that format is not in the forced bitrates; a Transfer of
\* a plain file is a Link without --move and a Move with it; every other task
\* is a Convert from the source format to the target format.
C16_TransferIffSameFormat ==
    \A i \in DOMAIN tasks :
        LET t == tasks[i]
            from == FromOf(t.source)
            to == ToOf(t)
        IN  /\ t.kind \in {"Transfer", "Convert"}
            /\ t.kind = "Transfer" <=> (from = to /\ from \notin cfg.forced_bitrates)
            /\ (t.kind = "Transfer" /\ t.source.origin = "File") =>
                  t.transfer = (IF cfg.move THEN "Move" ELSE "Link")
            /\ t.kind = "Convert" => (t.from = from /\ t.to = to)

\* The plan holds a Move of a plain file and a Convert whose source is
\* already in the target format, which is one of the forced bitrates.
C16_Witness ==
    /\ pc # "plan"
    /\ \E i, j \in DOMAIN tasks :
        /\ tasks[i].kind = "Transfer" /\ tasks[i].transfer = "Move"
        /\ tasks[j].kind = "Convert"
        /\ FromOf(tasks[j].source) = ToOf(tasks[j])
        /\ ToOf(tasks[j]) \in cfg.forced_bitrates

----------------------------------------------------------------------------
(* C17 *)

\* The pairs (plain file, target format) whose destination is the file itself.
SelfConversions ==
    {<<s, to>> \in PlannedSources \X FormatSet :
        /\ s.origin = "File"
        /\ to \in TargetsOf(s)
        /\ DestOf(s, to) = Db_to_path(db, s)}

\* C17: when the destination computed for a plain file and a target format is
\* the file itself, the plan holds no task and no already-exists diagnostic
\* for the pair, and reading the file gave no error.
C17_SelfConversionDropped ==
    \A pair \in SelfConversions :
        LET s == pair[1]
            path == Db_to_path(db, s)
        IN  /\ TasksFor(s, path) = {}
            /\ \A n \in DOMAIN already_exists :
                  ~(already_exists[n].source = s /\ already_exists[n].path = path)
            /\ \A n \in DOMAIN errors :
                  \A k \in DOMAIN errors[n].messages :
                      errors[n].messages[k].of # path

\* Planning is over with --force set; a file was its own destination, so that
\* a task for it would have queued the removal of the source, and another
\* file got a task.
C17_Witness ==
    /\ pc = "exec" /\ pos = 1 /\ cfg.force
    /\ \E pair \in SelfConversions : FileExists(fs, Db_to_path(db, pair[1]))
    /\ tasks # <<>>

----------------------------------------------------------------------------
(* C18 *)

\* The sources that are already in one of their target formats, that format
\* not being one of the forced bitrates.
SameFormatSources ==
    {s \in PlannedSources :
        FromOf(s) \in TargetsOf(s) /\ FromOf(s) \notin cfg.forced_bitrates}

\* C18 as stated: a source already in the target format, with no forced
\* bitrate and a destination that is the path of the source, gets a Transfer
\* task of kind Link.
C18_Original ==
    \A s \in SameFormatSources :
        DestOf(s, FromOf(s)) = Db_to_path(db, s) =>
            \E i \in TasksFor(s, DestOf(s, FromOf(s))) :
                tasks[i].kind = "Transfer" /\ tasks[i].transfer = "Link"

\* C18: a source already in the target format, with no forced bitrate for
\* it, never gets a Convert task for that format.  A plain file whose
\* destination is the file itself gets no task at all; otherwise the pair
\* gets one Transfer task: a Link for a plain file without --move, a Move
\* with --move, a Copy for a file in an archive.
C18_SameFormatNeverConverted ==
    \A s \in SameFormatSources :
        LET dest == DestOf(s, FromOf(s))
        IN  /\ \A i \in TasksFor(s, dest) : tasks[i].kind = "Transfer"
            /\ IF s.origin = "File" /\ dest = Db_to_path(db, s)
               THEN TasksFor(s, dest) = {}
               ELSE /\ Cardinality(TasksFor(s, dest)) = 1
                    /\ \A i \in TasksFor(s, dest) :
                          tasks[i].transfer =
                              (CASE s.origin = "Archive" -> "Copy"
                                 [] cfg.move -> "Move"
                                 [] OTHER -> "Link")

\* Planning is over without --to: a plain file in its target format got no
\* task, and a file in an archive in its target format got a Copy to the
\* path it unpacks to.
C18_Witness ==
    /\ pc # "plan" /\ cfg.to_dir = NoDir
    /\ \E s, a \in SameFormatSources :
        /\ s.origin = "File" /\ TasksFor(s, DestOf(s, FromOf(s))) = {}
        /\ a.origin = "Archive"
        /\ DestOf(a, FromOf(a)) = Db_to_path(db, a)
        /\ \E i \in TasksFor(a, DestOf(a, FromOf(a))) : tasks[i].transfer = "Copy"

----------------------------------------------------------------------------
(* C19 *)

\* The permutations of 1..n.
Perms(n) == {p \in [1..n -> 1..n] : \A a, b \in 1..n : p[a] = p[b] => a = b}

\* The rule list in the order p gives.
Permute(conversion, p) == [k \in DOMAIN conversion |-> conversion[p[k]]]

\* C19: the targets of a source depend on the set of rules only: for every
\* source format and every permutation of the rule list the sequence of
\* targets is the same; it holds each matching target once, in the order of
\* the Format enumeration, and the tasks of one source are emitted in that
\* order.  [lossless=mp3, flac=ogg] and [flac=ogg, lossless=mp3] both give
\* mp3, ogg for flac.
C19_RuleOrderIrrelevant ==
    /\ \A f \in FormatSet :
          LET tos == ToFormats(cfg.conversion, f)
          IN  /\ \A p \in Perms(Len(cfg.conversion)) :
                    ToFormats(Permute(cfg.conversion, p), f) = tos
              /\ \A a, b \in DOMAIN tos :
                    a < b => FormatIndex(tos[a]) < FormatIndex(tos[b])
              /\ {tos[k] : k \in DOMAIN tos} =
                    UNION {Condition_to_format(cfg.conversion[n], f) :
                              n \in DOMAIN cfg.conversion}
    /\ \A i, j \in DOMAIN tasks :
          (i < j /\ tasks[i].source = tasks[j].source) =>
              FormatIndex(ToOf(tasks[i])) < FormatIndex(ToOf(tasks[j]))
    /\ \A s \in PlannedSources :
          \A to \in TargetsOf(s) :
              IsSelfConversion(db, s, DestOf(s, to)) \/ TasksFor(s, DestOf(s, to)) # {}
    /\ cfg.conversion \in {<<CondFromTo("lossless", "mp3"), CondFromTo("flac", "ogg")>>,
                           <<CondFromTo("flac", "ogg"), CondFromTo("lossless", "mp3")>>} =>
          ToFormats(cfg.conversion, "flac") = <<"mp3", "ogg">>

\* Planning is over with the rules flac=ogg, lossless=mp3, in that order: the
\* flac file got its mp3 task first and its ogg task second.
C19_Witness ==
    /\ pc # "plan"
    /\ cfg.conversion = <<CondFromTo("flac", "ogg"), CondFromTo("lossless", "mp3")>>
    /\ \E i, j \in DOMAIN tasks :
        /\ i < j /\ tasks[i].source = tasks[j].source
        /\ tasks[i].source.origin = "File"
        /\ ToOf(tasks[i]) = "mp3" /\ ToOf(tasks[j]) = "ogg"

----------------------------------------------------------------------------
(* C20 *)

\* The sequence of targets the rules give to a source.
TargetSeq(source) == ToFormats(cfg.conversion, FromOf(source))

\* C20 as stated: with the default rules a lossless source has the one target
\* mp3 and is planned as a Convert; a lossy source has its own format as the
\* one target and is planned as a Link, or dropped when the destination is
\* the source.
C20_Original ==
    cfg.conversion = DefaultConversion =>
        \A s \in PlannedSources :
            LET from == FromOf(s)
                to == IF is_lossless(from) THEN "mp3" ELSE from
                planned == TasksFor(s, DestOf(s, to))
            IN  /\ TargetSeq(s) = <<to>>
                /\ {i \in DOMAIN tasks : tasks[i].source = s} = planned
                /\ IF is_lossless(from)
                   THEN /\ Cardinality(planned) = 1
                        /\ \A i \in planned : tasks[i].kind = "Convert"
                   ELSE IF DestOf(s, to) = Db_to_path(db, s)
                   THEN planned = {}
                   ELSE /\ Cardinality(planned) = 1
                        /\ \A i \in planned :
                              tasks[i].kind = "Transfer" /\ tasks[i].transfer = "Link"

\* C20: with the default rules a lossless source has the one target mp3 and
\* is planned as a Convert to mp3; a lossy source has its own format as the
\* one target.  A lossy plain file whose destination is the file itself is
\* dropped; otherwise a lossy source whose format is one of the forced
\* bitrates is planned as a Convert to its own format, and any other lossy
\* source as a Transfer: a Link for a plain file without --move, a Move with
\* --move, a Copy for a file in an archive.
C20_DefaultRules ==
    cfg.conversion = DefaultConversion =>
        \A s \in PlannedSources :
            LET from == FromOf(s)
                to == IF is_lossless(from) THEN "mp3" ELSE from
                planned == TasksFor(s, DestOf(s, to))
            IN  /\ TargetSeq(s) = <<to>>
                /\ {i \in DOMAIN tasks : tasks[i].source = s} = planned
                /\ IF s.origin = "File" /\ DestOf(s, to) = Db_to_path(db, s)
                   THEN planned = {} /\ ~is_lossless(from)
                   ELSE /\ Cardinality(planned) = 1
                        /\ \A i \in planned :
                              IF is_lossless(from) \/ from \in cfg.forced_bitrates
                              THEN /\ tasks[i].kind = "Convert"
                                   /\ tasks[i].from = from /\ tasks[i].to = to
                              ELSE /\ tasks[i].kind = "Transfer"
                                   /\ tasks[i].transfer =
                                         (CASE s.origin = "Archive" -> "Copy"
                                            [] cfg.move -> "Move"
                                            [] OTHER -> "Link")

\* Planning is over with the default rules and --to: a flac file in the
\* archive is converted to mp3 and a lossy plain file is linked.
C20_Witness ==
    /\ pc # "plan"
    /\ cfg.conversion = DefaultConversion /\ cfg.to_dir = OutDir
    /\ \E i, j \in DOMAIN tasks :
        /\ tasks[i].kind = "Convert" /\ FromOf(tasks[i].source) = "flac"
        /\ ToOf(tasks[i]) = "mp3"
        /\ tasks[j].kind = "Transfer" /\ tasks[j].transfer = "Link"
        /\ FromOf(tasks[j].source) \in {"aac", "ogg"}

----------------------------------------------------------------------------
(* C21 *)

\* The audio files whose required tags could not be read.
UntaggedSources ==
    {s \in FileSources \cup ArchivedSources :
        FromOf(s) # "" /\ ~Parts_from_source(fs0, db, s).parts}

\* C21 as stated: with --meta, once planning is over, a source whose required
\* tags cannot be read has an error entry and no task.
C21_Original ==
    (cfg.meta /\ pc # "plan") =>
        \A s \in UntaggedSources :
            /\ \E n \in DOMAIN errors : errors[n].source = s
            /\ \A i \in DOMAIN tasks : tasks[i].source # s

----------------------------------------------------------------------------
(* C22 *)

\* C22 as stated: once planning is over, every message in an error entry was
\* produced while reading the source of that entry, and every message that
\* was produced is in the entry of its source.
C22_Original ==
    (cfg.meta /\ pc # "plan") =>
        /\ \A n \in DOMAIN errors :
              \A k \in DOMAIN errors[n].messages :
                  errors[n].messages[k].of = Db_to_path(db, errors[n].source)
        /\ \A s \in UntaggedSources :
              \E n \in DOMAIN errors :
                  /\ errors[n].source = s
                  /\ \E k \in DOMAIN errors[n].messages :
                        errors[n].messages[k].of = Db_to_path(db, s)

----------------------------------------------------------------------------
(* C23 *)

----------------------------------------------------------------------------
(* C24 *)

\* C24: without --to and --meta, a file with relative path e in the archive
\* D/A.zip gets, for each of its target formats, a task whose destination is
\* D/A/e with the extension replaced by that of the target format, and no
\* task with another destination.
C24_ArchiveEntryInPlace ==
    (cfg.to_dir = NoDir /\ ~cfg.meta) =>
        /\ \A i \in DOMAIN tasks :
              tasks[i].source.origin = "Archive" =>
                  LET A == db.archives[tasks[i].source.archive + 1].path
                      e == tasks[i].source.path
                  IN  /\ tasks[i].to_path.dir =
                            A.dir \o <<A.name>> \o SelectSeq(e.dir, LAMBDA x : x # ".")
                      /\ tasks[i].to_path.name = e.name
                      /\ tasks[i].to_path.ext \in TargetsOf(tasks[i].source)
                      /\ ~tasks[i].to_path.part
        /\ \A s \in ArchivedSources :
              FromOf(s) # "" =>
                  \A to \in TargetsOf(s) :
                      \E i \in DOMAIN tasks :
                          tasks[i].source = s /\ tasks[i].to_path.ext = to

\* Planning is over without --to: the wav file in directory cd1 of in/a.zip
\* is converted to in/a/cd1/w.mp3 and the flac file at the top of the archive
\* to in/a/y.ogg.
C24_Witness ==
    /\ pc # "plan" /\ cfg.to_dir = NoDir /\ ~cfg.meta
    /\ \E i, j \in DOMAIN tasks :
        /\ tasks[i].source.origin = "Archive"
        /\ tasks[i].source.path = Path(<<"cd1">>, "w", "wav")
        /\ tasks[i].to_path = Path(<<"in", "a", "cd1">>, "w", "mp3")
        /\ tasks[j].source.origin = "Archive"
        /\ tasks[j].source.path = Path(<<>>, "y", "flac")
        /\ tasks[j].to_path = Path(<<"in", "a">>, "y", "ogg")

----------------------------------------------------------------------------
(* C25 *)

\* The error entry returns in non-interactive mode.
NonInteractiveErrors == "Aborting due to non-interactive errors."

\* C25: in non-interactive mode, once the books are scanned, a catalog with
\* exactly one book has that book picked; if the name of the series is
\* undetermined or some catalog has no pick, entry returns the
\* non-interactive error with no file written and no directory created; and
\* that error is never returned when the name is determined and only
\* catalogs with one book are left without a pick predicate.
C25_NonInteractiveErrors ==
    (bookvert.opts.noninteractive /\ bookvert.pc \notin {"idle", "scan"}) =>
        LET unpicked == {k \in DOMAIN bookvert.catalogs :
                            bookvert.catalogs[k].picked = None}
        IN  /\ \A k \in DOMAIN bookvert.catalogs :
                  Len(bookvert.catalogs[k].books) = 1 =>
                      bookvert.catalogs[k].picked = Some(0)
            /\ (bookvert.name = None \/ unpicked # {}) =>
                  /\ bookvert.pc \in {"check", "returned"}
                  /\ bookvert.pc = "returned" => bookvert.result = NonInteractiveErrors
                  /\ bookvert.written = <<>>
                  /\ bookvert.targets = bookvert.targets0
                  /\ bookvert.out_dir = (bookvert.targets0 # {})
            /\ bookvert.result = NonInteractiveErrors =>
                  \/ bookvert.name = None
                  \/ \E k \in unpicked : Len(bookvert.catalogs[k].books) > 1

\* entry returned the non-interactive error with --force and without
\* --dry-run: the name was given, one catalog has a single book, which is
\* picked, and another has two books and no pick.
C25_Witness ==
    /\ bookvert.pc = "returned" /\ bookvert.result = NonInteractiveErrors
    /\ bookvert.opts.force /\ ~bookvert.opts.dry_run
    /\ bookvert.name # None
    /\ \E j, k \in DOMAIN bookvert.catalogs :
        /\ Len(bookvert.catalogs[j].books) = 1
        /\ bookvert.catalogs[j].picked = Some(0)
        /\ Len(bookvert.catalogs[k].books) > 1
        /\ bookvert.catalogs[k].picked = None
    /\ bookvert.written = <<>>

----------------------------------------------------------------------------
(* C26 *)

\* C26 as stated: an unreadable directory entry or an archive that cannot be
\* opened does not abort the run: when planning has stopped, every readable
\* file the walk yields is registered, and every entry of a readable archive
\* that has a target format has a task.
C26_Original ==
    (pc # "plan") =>
        /\ pc # "failed"
        /\ \A k \in DOMAIN Walk(fs0) :
              LET p == Walk(fs0)[k]
              IN  (~WalkFails(fs0, p) /\ ~EnumerateFails(fs0, p)) =>
                      IF Archive_from_ext(extension(p)) # ""
                      THEN \E a \in DOMAIN db.archives : db.archives[a].path = p
                      ELSE \E n \in DOMAIN db.files : db.files[n] = p
        /\ \A s \in PlannedSources :
              \A to \in TargetsOf(s) :
                  DestOf(s, to) # Db_to_path(db, s) =>
                      \E i \in DOMAIN tasks : tasks[i].source = s

----------------------------------------------------------------------------
(* C27 *)

\* The directory path d cut after its first n components.
Upto(d, n) == SubSeq(d, 1, n)

\* C27 as stated: when the run is over and no removal of a directory failed,
\* the removal has cascaded upward from the parent of every source whose
\* trash move failed: on the way up from that parent, the first directory
\* that still exists is not empty.
C27_Original ==
    (pc = "done" /\ ~cfg.dry_run
        /\ \A k \in DOMAIN log : ~(log[k].op = "rmdir" /\ ~log[k].ok)) =>
        \A k \in DOMAIN check_empty :
            \A n \in 1..Len(check_empty[k]) :
                (/\ IsDir(fs, Upto(check_empty[k], n))
                 /\ \A m \in (n + 1)..Len(check_empty[k]) :
                       ~IsDir(fs, Upto(check_empty[k], m)))
                    => ~is_empty_dir(fs, Upto(check_empty[k], n))

----------------------------------------------------------------------------
(* C28 *)

\* The sources the plan names: those of the tasks, of the already-exists
\* diagnostics and of the errors.
SourcesInPlan ==
    {tasks[i].source : i \in DOMAIN tasks}
        \cup {already_exists[n].source : n \in DOMAIN already_exists}
        \cup {errors[n].source : n \in DOMAIN errors}

\* C28: no source of the plan that is in an archive has a '..' component in
\* its relative path, so that Db::to_path and Db::to_dir_path never meet the
\* component they panic on, and no destination has one either.
C28_NoParentDirSource ==
    /\ \A s \in SourcesInPlan :
          s.origin = "Archive" =>
              \A n \in DOMAIN s.path.dir : s.path.dir[n] # ".."
    /\ \A i \in DOMAIN tasks :
          \A n \in DOMAIN tasks[i].to_path.dir : tasks[i].to_path.dir[n] # ".."

\* Planning is over for an archive with the entry ../z.mp3: other entries of
\* the archive got tasks under a rule that gives every mp3 file a target.
C28_Witness ==
    /\ pc = "exec"
    /\ \E a \in DOMAIN db.archives :
        /\ \E n \in DOMAIN fs0.files[db.archives[a].path].entries :
              fs0.files[db.archives[a].path].entries[n].path = Path(<<"..">>, "z", "mp3")
        /\ \E i \in DOMAIN tasks :
              /\ tasks[i].source.origin = "Archive"
              /\ tasks[i].source.archive = a - 1
              /\ tasks[i].source.path.ext = "mp3"

----------------------------------------------------------------------------
(* C29 *)

\* The list of the registry a push goes to, and the error of its lookup.
ListOf(op) == IF op = "push_file" THEN db.files ELSE db.archives

\* The pushes of the same kind made before the n-th call.
EarlierPushes(n) == {m \in 1..(n - 1) : log[m].op = log[n].op}

\* C29: after any sequence of pushes, the k-th pushed file (archive) got id
\* k - 1, no id was returned twice for the same kind, every id returned
\* still resolves to the value pushed with it, and an id that was not
\* returned for files (archives) resolves to an error.
C29_RegistryIds ==
    /\ \A n \in DOMAIN log :
          /\ log[n].id = Cardinality(EarlierPushes(n))
          /\ \A m \in EarlierPushes(n) : log[m].id # log[n].id
          /\ Lookup(ListOf(log[n].op), log[n].id, "invalid id").ok
          /\ Lookup(ListOf(log[n].op), log[n].id, "invalid id").value = log[n].value
    /\ \A op \in {"push_file", "push_archive"} :
          \A id \in 0..(MaxPush + 1) :
              (\A n \in DOMAIN log : ~(log[n].op = op /\ log[n].id = id)) =>
                  ~Lookup(ListOf(op), id, "invalid id").ok

\* Two files and two archives were pushed, the same file twice: the two
\* pushes of the file got ids 0 and 1.
C29_Witness ==
    /\ Len(db.files) = 2 /\ Len(db.archives) = 2
    /\ db.files[1] = db.files[2]
    /\ \E m, n \in DOMAIN log :
        /\ log[m].op = "push_file" /\ log[m].id = 0
        /\ log[n].op = "push_file" /\ log[n].id = 1

----------------------------------------------------------------------------
(* C30 *)

\* What a rule gives for the source format f, as C30 lists it.
RuleTarget(c, f) ==
    CASE c.tag = "Same" -> {f}
      [] c.tag = "To" -> {IF c.to = "same" THEN f ELSE c.to}
      [] c.tag = "FromTo" ->
            IF \/ c.from = "lossless" /\ f \in {"flac", "wav"}
               \/ c.from = "lossy" /\ f \in {"aac", "mp3", "ogg"}
               \/ c.from = f
            THEN {IF c.to = "same" THEN f ELSE c.to}
            ELSE {}

\* The targets the rule list gives the source.
RuleTargets(s) ==
    UNION {RuleTarget(cfg.conversion[i], FromOf(s)) : i \in DOMAIN cfg.conversion}

\* C30: the target formats planned for a source are exactly those its format
\* gets from the rules: every task of the source goes to one of them, each of
\* them has a task unless the destination is the source itself, and a source
\* that gets none has no task and no already-exists diagnostic.
C30_TargetSet ==
    \A s \in PlannedSources :
        /\ \A i \in DOMAIN tasks :
              tasks[i].source = s => ToOf(tasks[i]) \in RuleTargets(s)
        /\ \A to \in RuleTargets(s) :
              \/ \E i \in DOMAIN tasks : tasks[i].source = s /\ ToOf(tasks[i]) = to
              \/ s.origin = "File" /\ DestOf(s, to) = Db_to_path(db, s)
        /\ RuleTargets(s) = {} =>
              /\ \A i \in DOMAIN tasks : tasks[i].source # s
              /\ \A n \in DOMAIN already_exists : already_exists[n].source # s

\* Planning is over under the rules `same` (as a target) and flac=ogg: an
\* mp3 file in the archive has the one target mp3, the flac file of the
\* archive has the two targets flac and ogg and a task for each.
C30_Witness ==
    /\ pc = "exec"
    /\ cfg.conversion = <<CondTo("same"), CondFromTo("flac", "ogg")>>
    /\ \E s, t \in PlannedSources :
        /\ FromOf(s) = "mp3" /\ RuleTargets(s) = {"mp3"}
        /\ FromOf(t) = "flac" /\ RuleTargets(t) = {"flac", "ogg"}
        /\ \A to \in RuleTargets(t) :
              \E i \in DOMAIN tasks : tasks[i].source = t /\ ToOf(tasks[i]) = to

\* Planning is over under the single rule flac=ogg for a wav file and an
\* archive: the wav file got no target and no task, the flac file of the
\* archive a task.
C30_WitnessEmpty ==
    /\ pc = "exec"
    /\ cfg.conversion = <<CondFromTo("flac", "ogg")>>
    /\ \E s \in PlannedSources : FromOf(s) = "wav" /\ RuleTargets(s) = {}
    /\ tasks # <<>>

----------------------------------------------------------------------------
(* C31 *)

\* The characters that must not be in a path segment.
Forbidden == {"\\", "/", "<", ">", "?", "|", "\"", "*", ":"}

\* What C31 gives for one character that is not followed by whitespace.
Replaced(c) ==
    CASE c \in {"\\", "/"} -> <<"+">>
      [] c \in {"*", ":"} -> <<"-">>
      [] c \in {"<", ">", "?", "|", "\""} -> <<>>
      [] OTHER -> <<c>>

RECURSIVE ReplacedAll(_)
ReplacedAll(s) == IF s = <<>> THEN <<>> ELSE Replaced(Head(s)) \o ReplacedAll(Tail(s))

\* C31: the sanitized value holds none of the characters \ / < > ? | " * :,
\* sanitizing it again changes nothing, a value without whitespace is
\* sanitized character by character ('\' and '/' to '+', '*' and ':' to '-',
\* '<>?|"' to nothing), ': ' gives ' - ', and 'AC/DC' and
\* 'Greatest Hits: Vol. 1' give 'AC+DC' and 'Greatest Hits - Vol. 1'.
C31_SanitizeRemovesForbidden ==
    /\ call.fn = "sanitize" /\ call.pc # "start" =>
          /\ \A n \in DOMAIN call.output : call.output[n] \notin Forbidden
          /\ (\A n \in DOMAIN call.input : ~is_whitespace(call.input[n])) =>
                call.output = ReplacedAll(call.input)
    /\ call.fn = "sanitize" /\ call.pc = "twice" => call.again = call.output
    /\ sanitize(<<"a", ":", " ", "a">>) = <<"a", " ", "-", " ", "a">>
    /\ sanitize(<<"A", "C", "/", "D", "C">>) = <<"A", "C", "+", "D", "C">>
    /\ sanitize(<<"G", "r", "e", "a", "t", "e", "s", "t", " ", "H", "i", "t", "s",
                  ":", " ", "V", "o", "l", ".", " ", "1">>)
          = <<"G", "r", "e", "a", "t", "e", "s", "t", " ", "H", "i", "t", "s",
              " ", "-", " ", "V", "o", "l", ".", " ", "1">>
    /\ sanitize(<<"\\", "<", ">", "?", "|", "\"", "*", ":">>) = <<"+", "-", "-">>

\* 'a/*:' was sanitized to 'a+--' and then sanitized again.
C31_Witness ==
    /\ call.fn = "sanitize" /\ call.pc = "twice"
    /\ call.input = <<"a", "/", "*", ":">>
    /\ call.output = <<"a", "+", "-", "-">>
    /\ call.again = call.output

----------------------------------------------------------------------------
(* C32 *)

\* C32 as stated: the sanitized value has no two whitespace characters in a
\* row.
C32_Original ==
    (call.fn = "sanitize" /\ call.pc # "start") =>
        \A n \in 1..(Len(call.output) - 1) :
            ~(is_whitespace(call.output[n]) /\ is_whitespace(call.output[n + 1]))

----------------------------------------------------------------------------
(* C33 *)

\* C33: whenever scopes of the reporting sink are left, at their end or by an
\* error return, the level is again what it was when the outermost of them was
\* entered; the level is the number of open indent scopes, and it is 0 once
\* all scopes are left.
C33_IndentIsScoped ==
    /\ [](call.fn = "out" =>
            /\ call.scopes # <<>> => call.indent = Len(call.scopes) - 1
            /\ \A n \in DOMAIN call.scopes : call.scopes[n].entered = n - 2 \/ n = 1
            /\ call.scopes = <<>> => call.indent = 0)
    /\ [][(call.fn = "out" /\ Len(call'.scopes) < Len(call.scopes)) =>
            call'.indent = call.scopes[Len(call'.scopes) + 1].entered]_vars

\* An error return left every scope of a nesting of three, after a line was
\* written at level 2.
C33_Witness ==
    /\ call.fn = "out" /\ call.pc = "closed"
    /\ call.left = "error"
    /\ call.indent = 0
    /\ \E n \in DOMAIN call.lines : call.lines[n] = 2

----------------------------------------------------------------------------
(* C34 *)

\* The formats among aac, mp3 and ogg that a from of a --bitrates rule names.
Matched(from) ==
    CASE from = "lossy"    -> {"aac", "mp3", "ogg"}
      [] from = "lossless" -> {}
      [] OTHER             -> {from} \cap {"aac", "mp3", "ogg"}

DefaultOf(f) == CASE f = "aac" -> 192 [] f = "mp3" -> 320 [] f = "ogg" -> 192

\* C34: after a --bitrates rule <from>=<n> was processed, each of aac, mp3 and
\* ogg that <from> matches has bitrate n, or its default (aac 192, mp3 320,
\* ogg 192) when n = 0, every other format has the bitrate it had; the forced
\* formats grew by exactly the matched formats with --force-bitrates and did
\* not change without it; no rule is refused.
C34_BitrateRules ==
    call.fn = "bitrates" =>
        /\ call.pc # "bailed"
        /\ DOMAIN call.bitrates = {"aac", "mp3", "ogg"}
        /\ call.pos > 0 =>
              LET rule == call.rules[call.pos]
              IN  /\ \A f \in DOMAIN call.bitrates :
                        call.bitrates[f] =
                            IF f \in Matched(rule.from)
                            THEN IF rule.bitrate > 0 THEN rule.bitrate ELSE DefaultOf(f)
                            ELSE call.before.bitrates[f]
                  /\ call.forced_bitrates =
                        IF call.force_bitrates
                        THEN call.before.forced_bitrates \cup Matched(rule.from)
                        ELSE call.before.forced_bitrates

\* 'mp3=128' then 'lossy=0' with --force-bitrates: mp3 is back at 320 and all
\* three formats are forced.
C34_Witness ==
    /\ call.fn = "bitrates" /\ call.pc = "done" /\ call.force_bitrates
    /\ call.rules = <<[from |-> "mp3", bitrate |-> 128], [from |-> "lossy", bitrate |-> 0]>>
    /\ call.before.bitrates["mp3"] = 128
    /\ call.before.forced_bitrates = {"mp3"}
    /\ call.bitrates["mp3"] = 320
    /\ call.forced_bitrates = {"aac", "mp3", "ogg"}

----------------------------------------------------------------------------
(* C35 *)

\* The positions of the log that hold a call with one of the given names for
\* the given task or list item.
CallsOf(ops, item) == {k \in DOMAIN log : log[k].op \in ops /\ log[k].task = item}

Running == {"plan", "exec", "trash", "check"}

Ended == {"done", "aborted", "failed"}

\* C35: every run ends; in one run the encoder is called at most once for a
\* task, and not again after it failed, the rename of the partial file and the
\* link, move or copy are called at most once for a task, a trash move at most
\* once for an item of to_trash and a directory removal at most once for an
\* item of check_empty; each loop goes through its list once, front to back.
C35_TerminatesAtMostOnce ==
    /\ [](\A item \in 0..(Len(tasks) + Len(to_trash) + Len(check_empty)) :
            /\ Cardinality(CallsOf({"enc"}, item)) <= 1
            /\ Cardinality(CallsOf({"rename"}, item)) <= 1
            /\ Cardinality(CallsOf({"link", "move", "copy"}, item)) <= 1
            /\ Cardinality(CallsOf({"trash"}, item)) <= 1
            /\ Cardinality(CallsOf({"rmdir"}, item)) <= 1)
    /\ [][(pc \in {"exec", "trash", "check"} /\ pc' = pc) => (pos' = pos + 1)]_vars
    /\ [][(pc = "plan" /\ pc' = "plan") => Len(walk') < Len(walk)]_vars
    /\ [][(pc \in Ended) => (run' = run + 1)]_vars
    /\ (pc \in Running) ~> (pc \in Ended)

\* A run ended in which the encoder failed for a task, was called once for
\* it, and a source was moved to the trash.
C35_Witness ==
    /\ pc = "done"
    /\ \E k \in DOMAIN log : log[k].op = "enc" /\ ~log[k].ok
          /\ CallsOf({"enc"}, log[k].task) = {k}
    /\ \E k \in DOMAIN log : log[k].op = "trash" /\ log[k].ok

----------------------------------------------------------------------------
(* C36 *)

\* The tasks planned for the source at the given path.
TasksOfSource(path) == {i \in DOMAIN tasks : Db_to_path(db, tasks[i].source) = path}

\* C36 as stated: a source is moved to the trash only if every task planned
\* for it is done, and a trash move is attempted at most once for a source.
C36_Original ==
    \A k \in DOMAIN log :
        log[k].op = "trash" =>
            /\ \A i \in TasksOfSource(log[k].from) : Done(tasks[i])
            /\ \A j \in DOMAIN log :
                  (log[j].op = "trash" /\ log[j].from = log[k].from) => j = k

----------------------------------------------------------------------------
(* C37 *)

\* C37 as stated: two different sources of to_trash have different paths in
\* the trash directory, and a file moved to the trash in this run is still
\* there, with the content of its source, whatever was trashed after it.
C37_Original ==
    /\ \A n, m \in DOMAIN to_trash :
          to_trash[n].from # to_trash[m].from =>
              to_trash[n].trash_path # to_trash[m].trash_path
    /\ \A k \in DOMAIN log :
          (log[k].op = "trash" /\ log[k].ok) =>
              /\ FileExists(fs, log[k].path)
              /\ fs.files[log[k].path].src = log[k].from

----------------------------------------------------------------------------
(* C38 *)

\* C38 as stated: outside a dry run, at any time of a run a task with
\* moved = true has a file at its destination, and a Convert task with
\* moved = true has converted = true.
C38_Original ==
    (~cfg.dry_run /\ pc \in {"plan", "exec", "trash", "check", "done", "aborted"}) =>
        \A i \in DOMAIN tasks :
            tasks[i].moved =>
                /\ FileExists(fs, tasks[i].to_path)
                /\ tasks[i].kind = "Convert" => tasks[i].converted

----------------------------------------------------------------------------
(* C39 *)

\* C39: in the interactive session, whatever keys were pressed, a catalog with
\* picked = Some(i) has i < the number of its books, so that Catalog::selected
\* gives a book exactly when picked is set; the cursor of the catalogs view is
\* in 0..=catalogs+1, a books view is on a catalog that exists and its cursor
\* is in 0..=books-1.
C39_PicksAndCursorsInRange ==
    call.fn = "app" =>
        /\ \A k \in DOMAIN bookvert.catalogs :
              LET c == bookvert.catalogs[k]
              IN  /\ c.picked # None => Unwrap(c.picked) \in 0..(Len(c.books) - 1)
                  /\ Catalog_selected(c) # None <=> c.picked # None
        /\ \A n \in DOMAIN call.views :
              LET v == call.views[n]
              IN  /\ v.tag = "Catalogs" => v.index \in 0..(Len(bookvert.catalogs) + 1)
                  /\ v.tag = "Books" =>
                        /\ v.category < Len(bookvert.catalogs)
                        /\ v.index \in
                              0..(Len(bookvert.catalogs[v.category + 1].books) - 1)

\* The cursor of the catalogs view is on the last of two catalogs, the books
\* view on top of it has its cursor on the last of three books, and the other
\* catalog, which started without a pick, has its second book picked.
C39_Witness ==
    /\ call.fn = "app" /\ bookvert.pc = "app"
    /\ bookvert.opts.picker.matches = <<>>
    /\ Len(bookvert.catalogs) = 2
    /\ Len(call.views) = 2
    /\ call.views[1].tag = "Catalogs" /\ call.views[1].index = 3
    /\ call.views[2].tag = "Books" /\ call.views[2].category = 1
    /\ call.views[2].index = Len(bookvert.catalogs[2].books) - 1
    /\ Len(bookvert.catalogs[1].books) = 3
    /\ bookvert.catalogs[1].picked = Some(2)

----------------------------------------------------------------------------
(* C40 *)

\* Some catalog has no picked book.
SomeUnpicked == \E k \in DOMAIN bookvert.catalogs : bookvert.catalogs[k].picked = None

\* C40 as stated: the session returns true with a catalog left without a pick
\* only when it was the confirmation view that finished it; it returns false
\* exactly when the view stack is empty, and then no book is written.
C40_Original ==
    call.fn = "app" =>
        /\ (call.outcome = Some(TRUE) /\ SomeUnpicked) => call.finished_by.tag = "Confirm"
        /\ call.outcome = Some(FALSE) =>
              /\ call.views = <<>>
              /\ bookvert.pc = "returned"
              /\ bookvert.written = <<>>
        /\ (call.views = <<>> /\ bookvert.pc # "app") => call.outcome = Some(FALSE)

====
